---- MODULE Spec2Model ----
(***************************************************************************)
(* JoinRender-Flow workflow engine: the graph store (store/index.ts), the  *)
(* execution scheduler (services/executor.ts) and the ComfyUI translator   *)
(* and validator (components/CustomNodeEditor.tsx).                        *)
(*                                                                         *)
(* Encodings.  A JS array is a sequence.  A JS object used as an ordered   *)
(* map (node.data, an output map) is a sequence of <<key, value>> pairs in *)
(* insertion order.  A port id `input-<i>` / `output-<i>` is the pair      *)
(* <<"input", i>> / <<"output", i>> (i counted from 0, as in the code).    *)
(* uuidv4() is a counter that never repeats.  Port and key names that are  *)
(* Chinese in the source are glossed in ASCII (Text, InputText, ...).      *)
(***************************************************************************)
EXTENDS Integers, Sequences, FiniteSets, TLC

VARIABLES
    nodes,          \* WorkflowStore.nodes: NodeInstance[]
    connections,    \* WorkflowStore.connections: Connection[]
    nextNodeId,     \* uuidv4() draws for node ids so far
    nextConnId,     \* uuidv4() draws for connection ids so far
    lastOp,         \* the call that produced this state: its name and arguments
    pc,             \* position of the running function (executeWorkflow, translator, validator)
    executionOrder, \* executeWorkflow: const executionOrder
    idx,            \* executeWorkflow: position of the for..of loop in executionOrder
    nodeOutputs,    \* executeWorkflow: context.nodeOutputs, as <<nodeId, outputs>> pairs
    events,         \* callback invocations so far (onProgress, onNodeComplete, onNodeError)
    calls,          \* executeNode invocations so far: the node id and the resolved inputs
    exported,       \* result of exportToComfyUIWorkflow
    imported,       \* result of importComfyUIWorkflow
    validation,     \* result of validateWorkflow
    runs,           \* the runAll calls: each one's position and its executeWorkflow locals
    isRunning,      \* WorkflowStore.isRunning
    storeOutputs,   \* WorkflowStore.nodeOutputs, as <<nodeId, [outputs, run]>> pairs
    executionStates,\* WorkflowStore.executionStates: NodeExecutionState[]
    connectionState,\* WorkflowStore.connectionState: the connection being dragged
    plugins,        \* PluginManager.plugins: Map<string, Plugin>, as <<id, plugin>> pairs
    customNodes,    \* PluginManager.customNodes: Map<string, NodeDefinition>, as <<type, definition>> pairs
    registeredDefinitions \* nodes/definitions.ts: customNodeDefinitions, as setCustomNodeDefinitions left it

storeVars == <<nodes, connections, nextNodeId, nextConnId, lastOp>>
execVars  == <<pc, executionOrder, idx, nodeOutputs, events, calls>>
transVars == <<exported, imported, validation>>
runVars   == <<runs, isRunning, storeOutputs, executionStates>>
gestureVars == <<connectionState>>
pluginVars == <<plugins, customNodes, registeredDefinitions>>
vars == <<nodes, connections, nextNodeId, nextConnId, lastOp,
          pc, executionOrder, idx, nodeOutputs, events, calls,
          exported, imported, validation,
          runs, isRunning, storeOutputs, executionStates,
          connectionState, plugins, customNodes, registeredDefinitions>>

(***************************************************************************)
(* Bounds of the model.                                                    *)
(***************************************************************************)
MaxNodes == 2        \* uuid draws for node ids (so: nodes ever created in the store)
MaxConnIds == 2      \* uuid draws for connection ids (so: connections ever created)
MaxGraphSize == 5    \* nodes plus connections of a workflow handed to the scheduler

MaxRuns == 2         \* runAll calls

NoValue == "undefined"

(***************************************************************************)
(* Generic helpers on sequences and ordered maps.                          *)
(***************************************************************************)
Range(s) == {s[i] : i \in DOMAIN s}

MapHas(m, k) == \E i \in DOMAIN m : m[i][1] = k

MapGet(m, k) == IF MapHas(m, k)
                THEN m[CHOOSE i \in DOMAIN m : m[i][1] = k][2]
                ELSE NoValue

\* obj[k] = v on a JS object: an existing key keeps its place, a new key is appended
MapSet(m, k, v) == IF MapHas(m, k)
                   THEN [i \in DOMAIN m |-> IF m[i][1] = k THEN <<k, v>> ELSE m[i]]
                   ELSE Append(m, <<k, v>>)

MapKeys(m) == [i \in DOMAIN m |-> m[i][1]]
MapValues(m) == [i \in DOMAIN m |-> m[i][2]]

(***************************************************************************)
(* Node definitions (nodes/definitions.ts, builtinNodeDefinitions).        *)
(***************************************************************************)
builtinNodeDefinitions ==
    << [type |-> "text-input",
        inputs |-> << >>,
        outputs |-> << [name |-> "Text", type |-> "text"] >>,
        defaultData |-> << <<"text", "">> >>],
       [type |-> "llm",
        inputs |-> << [name |-> "InputText", type |-> "text", widget |-> FALSE] >>,
        outputs |-> << [name |-> "OutputText", type |-> "text"] >>,
        defaultData |-> << <<"systemPrompt", "director">> >>],
       [type |-> "image-gen",
        inputs |-> << [name |-> "Prompt", type |-> "text", widget |-> FALSE],
                      [name |-> "ReferenceImage", type |-> "image", widget |-> FALSE] >>,
        outputs |-> << [name |-> "Image", type |-> "image"] >>,
        defaultData |-> << <<"model", "sd-xl">>, <<"aspectRatio", "16:9">> >>],
       [type |-> "image-upload",
        inputs |-> << >>,
        outputs |-> << [name |-> "Image", type |-> "image"] >>,
        defaultData |-> << <<"imageUrl", "">>, <<"fileName", "">> >>],
       [type |-> "image-output",
        inputs |-> << [name |-> "Image", type |-> "image", widget |-> FALSE] >>,
        outputs |-> << >>,
        defaultData |-> << <<"format", "png">>, <<"quality", 90>> >>] >>

(***************************************************************************)
(* Plugin nodes (plugins/PluginManager.ts, plugins/builtinComfyNodes.ts).  *)
(* An input specification [first, config] of a plugin node is the record   *)
(* [combo, first, config]: combo says that `first` is an array (the options *)
(* of a drop-down), config is the ordered map of the second element.  A    *)
(* WidgetConfig is kept as its presence: widget = TRUE.  The numbers of a  *)
(* plugin file are kept as their numerals.                                 *)
(***************************************************************************)
pluginTypeMap ==
    << <<"IMAGE", "image">>, <<"LATENT", "latent">>, <<"MODEL", "model">>, <<"CLIP", "clip">>,
       <<"VAE", "vae">>, <<"CONDITIONING", "conditioning">>, <<"MASK", "mask">>,
       <<"CONTROL_NET", "control_net">>, <<"INT", "int">>, <<"FLOAT", "float">>,
       <<"STRING", "text">>, <<"BOOLEAN", "boolean">> >>

\* typeMap[comfyType] || 'any'
mapComfyType(comfyType) ==
    IF MapHas(pluginTypeMap, comfyType) THEN MapGet(pluginTypeMap, comfyType) ELSE "any"

\* config?.default ?? fallback
DefaultOr(config, fallback) ==
    IF MapHas(config, "default") THEN MapGet(config, "default") ELSE fallback

parseComfyInput(spec) ==
    IF spec.combo
    THEN [portType |-> "combo", widget |-> TRUE, hasDefault |-> TRUE,
          defaultValue |-> DefaultOr(spec.config, spec.first[1])]
    ELSE CASE spec.first = "INT" ->
                [portType |-> "int", widget |-> TRUE, hasDefault |-> TRUE,
                 defaultValue |-> DefaultOr(spec.config, 0)]
           [] spec.first = "FLOAT" ->
                [portType |-> "float", widget |-> TRUE, hasDefault |-> TRUE,
                 defaultValue |-> DefaultOr(spec.config, 0)]
           [] spec.first = "STRING" ->
                [portType |-> "text", widget |-> TRUE, hasDefault |-> TRUE,
                 defaultValue |-> DefaultOr(spec.config, "")]
           [] spec.first = "BOOLEAN" ->
                [portType |-> "boolean", widget |-> TRUE, hasDefault |-> TRUE,
                 defaultValue |-> DefaultOr(spec.config, FALSE)]
           [] OTHER ->
                [portType |-> mapComfyType(spec.first), widget |-> FALSE, hasDefault |-> FALSE,
                 defaultValue |-> NoValue]

RECURSIVE convertDefaultData(_, _, _)
\* if (defaultValue !== undefined) defaultData[name] = defaultValue, over the entries
convertDefaultData(entries, i, defaultData) ==
    IF i > Len(entries) THEN defaultData
    ELSE convertDefaultData(entries, i + 1,
            IF parseComfyInput(entries[i][2]).hasDefault
            THEN MapSet(defaultData, entries[i][1], parseComfyInput(entries[i][2]).defaultValue)
            ELSE defaultData)

convertComfyNodeToInternal(comfyNode) ==
    [type |-> "comfy-" \o comfyNode.name,
     inputs |-> [i \in DOMAIN comfyNode.required |->
                   [name |-> comfyNode.required[i][1],
                    type |-> parseComfyInput(comfyNode.required[i][2]).portType,
                    widget |-> parseComfyInput(comfyNode.required[i][2]).widget]],
     outputs |-> [i \in DOMAIN comfyNode.output |->
                   [name |-> comfyNode.output_name[i],
                    type |-> mapComfyType(comfyNode.output[i])]],
     defaultData |-> convertDefaultData(comfyNode.required, 1, << >>)]

\* a plugin node of the core plugin (registered when the application starts)
LoraLoader ==
    [name |-> "LoraLoader",
     required |-> << <<"model", [combo |-> FALSE, first |-> "MODEL", config |-> << >>]>>,
                     <<"clip", [combo |-> FALSE, first |-> "CLIP", config |-> << >>]>>,
                     <<"lora_name", [combo |-> TRUE, first |-> <<"lora1", "lora2">>,
                                     config |-> << >>]>>,
                     <<"strength_model", [combo |-> FALSE, first |-> "FLOAT",
                                          config |-> << <<"default", "1.0">> >>]>>,
                     <<"strength_clip", [combo |-> FALSE, first |-> "FLOAT",
                                         config |-> << <<"default", "1.0">> >>]>> >>,
     output |-> <<"MODEL", "CLIP">>,
     output_name |-> <<"Model", "CLIP">>]

\* a plugin node as a plugin file loaded by the user (loadPluginFromJSON) describes it
tiler ==
    [name |-> "tiler",
     required |-> << <<"image", [combo |-> FALSE, first |-> "IMAGE", config |-> << >>]>>,
                     <<"size", [combo |-> FALSE, first |-> "INT",
                                config |-> << <<"default", "512">> >>]>>,
                     <<"mode", [combo |-> TRUE, first |-> <<"fit", "fill">>,
                                config |-> << >>]>> >>,
     output |-> <<"IMAGE">>,
     output_name |-> <<"IMAGE">>]

\* the nodes of the registered, enabled plugins
pluginNodes == << LoraLoader, tiler >>

\* PluginManager.customNodes, handed to setCustomNodeDefinitions
customNodeDefinitions == [i \in DOMAIN pluginNodes |-> convertComfyNodeToInternal(pluginNodes[i])]

\* [...builtinNodeDefinitions, ...customNodeDefinitions]
getNodeDefinitions == builtinNodeDefinitions \o customNodeDefinitions

HasNodeDefinition(type) == \E i \in DOMAIN getNodeDefinitions : getNodeDefinitions[i].type = type

\* getNodeDefinitions().find(d => d.type === type); only used where HasNodeDefinition
getNodeDefinition(type) ==
    getNodeDefinitions[CHOOSE i \in DOMAIN getNodeDefinitions :
                          /\ getNodeDefinitions[i].type = type
                          /\ \A j \in 1..(i-1) : getNodeDefinitions[j].type # type]

(***************************************************************************)
(* The plugin registry (plugins/PluginManager.ts).  The manager is the     *)
(* record [plugins, customNodes] of its two Maps, each a sequence of       *)
(* <<key, value>> pairs in insertion order; a plugin is [id, enabled,      *)
(* nodes].                                                                 *)
(***************************************************************************)
\* Map.delete(k)
MapDelete(m, k) == SelectSeq(m, LAMBDA e : e[1] # k)

RECURSIVE setPluginNodes(_, _, _)
\* plugin.nodes.forEach(comfyNode => this.customNodes.set(nodeDefinition.type,
\* nodeDefinition)), from node number i on
setPluginNodes(cn, comfyNodes, i) ==
    IF i > Len(comfyNodes) THEN cn
    ELSE LET nodeDefinition == convertComfyNodeToInternal(comfyNodes[i])
         IN setPluginNodes(MapSet(cn, nodeDefinition.type, nodeDefinition), comfyNodes, i + 1)

RECURSIVE deletePluginNodes(_, _, _)
\* plugin.nodes.forEach(comfyNode => this.customNodes.delete(`comfy-${comfyNode.name}`)),
\* from node number i on
deletePluginNodes(cn, comfyNodes, i) ==
    IF i > Len(comfyNodes) THEN cn
    ELSE deletePluginNodes(MapDelete(cn, "comfy-" \o comfyNodes[i].name), comfyNodes, i + 1)

\* the manager after registerPlugin(plugin)
registerPlugin(manager, plugin) ==
    [plugins |-> MapSet(manager.plugins, plugin.id, plugin),
     customNodes |-> IF plugin.enabled
                     THEN setPluginNodes(manager.customNodes, plugin.nodes, 1)
                     ELSE manager.customNodes]

\* the manager after unregisterPlugin(pluginId)
unregisterPlugin(manager, pluginId) ==
    IF MapHas(manager.plugins, pluginId)
    THEN [plugins |-> MapDelete(manager.plugins, pluginId),
          customNodes |-> deletePluginNodes(manager.customNodes,
                                            MapGet(manager.plugins, pluginId).nodes, 1)]
    ELSE manager

\* the manager after togglePlugin(pluginId, enabled)
togglePlugin(manager, pluginId, enabled) ==
    IF MapHas(manager.plugins, pluginId)
    THEN LET plugin == MapGet(manager.plugins, pluginId)
         IN [plugins |-> MapSet(manager.plugins, pluginId, [plugin EXCEPT !.enabled = enabled]),
             customNodes |-> IF enabled
                             THEN setPluginNodes(manager.customNodes, plugin.nodes, 1)
                             ELSE deletePluginNodes(manager.customNodes, plugin.nodes, 1)]
    ELSE manager

\* getCustomNodes(): Array.from(this.customNodes.values())
getCustomNodes(manager) == MapValues(manager.customNodes)

\* new PluginManagerClass()
emptyManager == [plugins |-> << >>, customNodes |-> << >>]

\* the plugins the workflow specifications run with: the core plugin the application
\* registers when it starts, and a plugin file loaded by the user
loadedPlugins ==
    << [id |-> "comfy-core", enabled |-> TRUE, nodes |-> << LoraLoader >>],
       [id |-> "tiling", enabled |-> TRUE, nodes |-> << tiler >>] >>

loadedManager == registerPlugin(registerPlugin(emptyManager, loadedPlugins[1]), loadedPlugins[2])

(***************************************************************************)
(* Graph store (store/index.ts).                                           *)
(***************************************************************************)
createNodeInstance(definition, position, id) ==
    [id |-> id,
     type |-> definition.type,
     position |-> position,
     data |-> definition.defaultData,
     inputs |-> [i \in DOMAIN definition.inputs |->
                   [id |-> <<"input", i - 1>>,
                    name |-> definition.inputs[i].name,
                    type |-> definition.inputs[i].type,
                    connected |-> FALSE,
                    widget |-> definition.inputs[i].widget]],
     outputs |-> [i \in DOMAIN definition.outputs |->
                   [id |-> <<"output", i - 1>>,
                    name |-> definition.outputs[i].name,
                    type |-> definition.outputs[i].type,
                    connected |-> FALSE]]]

\* mutant: the new node is put in front of the list
addNode_InFront(ns, type, position, id) ==
    IF ~HasNodeDefinition(type) THEN ns
    ELSE <<createNodeInstance(getNodeDefinition(type), position, id)>> \o ns

\* addNode: the new node list (unchanged for an unknown type)
addNode(ns, type, position, id) ==
    IF ~HasNodeDefinition(type) THEN ns
    ELSE Append(ns, createNodeInstance(getNodeDefinition(type), position, id))

removeNodeNodes(ns, nodeId) == SelectSeq(ns, LAMBDA n : n.id # nodeId)

\* mutant: the cascade forgets the connections that end at the node
removeNodeConnections_SourceOnly(cs, nodeId) ==
    SelectSeq(cs, LAMBDA c : c.sourceNodeId # nodeId)

removeNodeConnections(cs, nodeId) ==
    SelectSeq(cs, LAMBDA c : c.sourceNodeId # nodeId /\ c.targetNodeId # nodeId)

RECURSIVE mergeData(_, _, _)
\* { ...n.data, ...data }
mergeData(data, patch, i) ==
    IF i > Len(patch) THEN data
    ELSE mergeData(MapSet(data, patch[i][1], patch[i][2]), patch, i + 1)

\* mutant: the patch replaces the literal data
updateNodeData_Replace(ns, nodeId, patch) ==
    [i \in DOMAIN ns |-> IF ns[i].id = nodeId THEN [ns[i] EXCEPT !.data = patch] ELSE ns[i]]

updateNodeData(ns, nodeId, patch) ==
    [i \in DOMAIN ns |-> IF ns[i].id = nodeId
                          THEN [ns[i] EXCEPT !.data = mergeData(@, patch, 1)]
                          ELSE ns[i]]

SameEndpoints(c, connection) ==
    /\ c.sourceNodeId = connection.sourceNodeId
    /\ c.sourcePortId = connection.sourcePortId
    /\ c.targetNodeId = connection.targetNodeId
    /\ c.targetPortId = connection.targetPortId

SameTarget(c, connection) ==
    /\ c.targetNodeId = connection.targetNodeId
    /\ c.targetPortId = connection.targetPortId

\* mutant: a duplicate is not looked for
addConnectionExists_Never(cs, connection) == FALSE

\* addConnection: const exists
addConnectionExists(cs, connection) == \E i \in DOMAIN cs : SameEndpoints(cs[i], connection)

\* addConnection: const targetHasConnection
addConnectionTargetHasConnection(cs, connection) == \E i \in DOMAIN cs : SameTarget(cs[i], connection)

\* mutant: an occupied input keeps its old connection
addConnectionKept_NoReplace(cs, connection) == cs

\* addConnection: newConnections, the old connection into the target input removed
addConnectionKept(cs, connection) ==
    IF addConnectionTargetHasConnection(cs, connection)
    THEN SelectSeq(cs, LAMBDA c : ~SameTarget(c, connection))
    ELSE cs

\* addConnection: [...newConnections, newConnection]
addConnectionConnections(cs, connection, id) ==
    IF addConnectionExists(cs, connection) THEN cs
    ELSE Append(addConnectionKept(cs, connection),
                [id |-> id,
                 sourceNodeId |-> connection.sourceNodeId,
                 sourcePortId |-> connection.sourcePortId,
                 targetNodeId |-> connection.targetNodeId,
                 targetPortId |-> connection.targetPortId])

SetConnected(ports, portId, flag) ==
    [i \in DOMAIN ports |-> IF ports[i].id = portId
                            THEN [ports[i] EXCEPT !.connected = flag]
                            ELSE ports[i]]

\* addConnection: updatedNodes (the source branch returns before the target branch)
addConnectionNodes(ns, cs, connection) ==
    IF addConnectionExists(cs, connection) THEN ns
    ELSE [i \in DOMAIN ns |->
            IF ns[i].id = connection.sourceNodeId
            THEN [ns[i] EXCEPT !.outputs = SetConnected(@, connection.sourcePortId, TRUE)]
            ELSE IF ns[i].id = connection.targetNodeId
            THEN [ns[i] EXCEPT !.inputs = SetConnected(@, connection.targetPortId, TRUE)]
            ELSE ns[i]]

HasConnectionId(cs, connectionId) == \E i \in DOMAIN cs : cs[i].id = connectionId

\* connections.find(c => c.id === connectionId), where HasConnectionId
FindConnection(cs, connectionId) ==
    cs[CHOOSE i \in DOMAIN cs : cs[i].id = connectionId /\ \A j \in 1..(i-1) : cs[j].id # connectionId]

removeConnectionConnections(cs, connectionId) ==
    SelectSeq(cs, LAMBDA c : c.id # connectionId)

\* removeConnection: updatedNodes
removeConnectionNodes(ns, cs, connectionId) ==
    IF ~HasConnectionId(cs, connectionId) THEN ns
    ELSE LET connection == FindConnection(cs, connectionId)
             hasOtherConnections(n) ==
                 \E i \in DOMAIN cs : /\ cs[i].id # connectionId
                                      /\ cs[i].sourceNodeId = n.id
                                      /\ cs[i].sourcePortId = connection.sourcePortId
         IN [i \in DOMAIN ns |->
               IF ns[i].id = connection.sourceNodeId /\ ~hasOtherConnections(ns[i])
               THEN [ns[i] EXCEPT !.outputs = SetConnected(@, connection.sourcePortId, FALSE)]
               ELSE IF ns[i].id = connection.targetNodeId
               THEN [ns[i] EXCEPT !.inputs = SetConnected(@, connection.targetPortId, FALSE)]
               ELSE ns[i]]

(***************************************************************************)
(* Execution order (services/executor.ts, getExecutionOrder).  A JS Map is *)
(* a function on its keys plus the keys in insertion order.                *)
(***************************************************************************)
NodeIdList(ns) == [i \in DOMAIN ns |-> ns[i].id]

RECURSIVE AppendNew(_, _)
\* keys order after Map.set of each element of ks in turn, starting from order
AppendNew(order, ks) ==
    IF ks = << >> THEN order
    ELSE AppendNew(IF Head(ks) \in Range(order) THEN order ELSE Append(order, Head(ks)),
                   Tail(ks))

\* the keys of inDegree in insertion order: the nodes, then every connection target
\* that is not a node
inDegreeKeys(ns, cs) ==
    AppendNew(AppendNew(<< >>, NodeIdList(ns)), [i \in DOMAIN cs |-> cs[i].targetNodeId])

\* mutant: the in-degree is counted at the source end of each connection
inDegreeInit_BySource(ns, cs) ==
    [k \in Range(inDegreeKeys(ns, cs)) |->
        Cardinality({i \in DOMAIN cs : cs[i].sourceNodeId = k})]

\* inDegree after the two forEach loops
inDegreeInit(ns, cs) ==
    [k \in Range(inDegreeKeys(ns, cs)) |->
        Cardinality({i \in DOMAIN cs : cs[i].targetNodeId = k})]

\* mutant: a target is listed once, however many connections lead to it
adjacency_Distinct(cs, nodeId) ==
    LET out == SelectSeq(cs, LAMBDA c : c.sourceNodeId = nodeId)
    IN AppendNew(<< >>, [i \in DOMAIN out |-> out[i].targetNodeId])

\* adjacency.get(nodeId) || []
adjacency(cs, nodeId) ==
    LET out == SelectSeq(cs, LAMBDA c : c.sourceNodeId = nodeId)
    IN [i \in DOMAIN out |-> out[i].targetNodeId]

\* mutant: every key is enqueued at the start, whatever its in-degree
initialQueue_All(ns, cs) == inDegreeKeys(ns, cs)

\* the initial queue: inDegree.forEach, keys of degree 0 in insertion order
initialQueue(ns, cs) ==
    SelectSeq(inDegreeKeys(ns, cs), LAMBDA k : inDegreeInit(ns, cs)[k] = 0)

RECURSIVE visitTargets(_, _, _)
\* targets.forEach: decrement, enqueue on reaching exactly 0; st = [inDegree, queue]
visitTargets(targets, inDegree, queue) ==
    IF targets = << >> THEN [inDegree |-> inDegree, queue |-> queue]
    ELSE LET targetId == Head(targets)
             newDegree == (IF targetId \in DOMAIN inDegree THEN inDegree[targetId] ELSE 0) - 1
             inDegree2 == [k \in DOMAIN inDegree \cup {targetId} |->
                              IF k = targetId THEN newDegree ELSE inDegree[k]]
         IN visitTargets(Tail(targets), inDegree2,
                         IF newDegree = 0 THEN Append(queue, targetId) ELSE queue)

RECURSIVE kahnLoop(_, _, _, _)
\* while (queue.length > 0)
kahnLoop(cs, inDegree, queue, result) ==
    IF queue = << >> THEN result
    ELSE LET nodeId == Head(queue)
             st == visitTargets(adjacency(cs, nodeId), inDegree, Tail(queue))
         IN kahnLoop(cs, st.inDegree, st.queue, Append(result, nodeId))

getExecutionOrder(ns, cs) ==
    kahnLoop(cs, inDegreeInit(ns, cs), initialQueue(ns, cs), << >>)

(***************************************************************************)
(* Node execution (services/executor.ts, getNodeInputs and executeNode).   *)
(***************************************************************************)
HasNode(ns, nodeId) == \E i \in DOMAIN ns : ns[i].id = nodeId

\* nodes.find(n => n.id === nodeId), where HasNode
FindNode(ns, nodeId) ==
    ns[CHOOSE i \in DOMAIN ns : ns[i].id = nodeId /\ \A j \in 1..(i-1) : ns[j].id # nodeId]

ConnectsInto(c, nodeId, index) == c.targetNodeId = nodeId /\ c.targetPortId = <<"input", index>>

\* mutant: the value of the first key, whatever the source port
sourcePortValue_First(sourceNode, sourcePortIndex) == sourceNode[1][2]

\* sourceNode[outputKeys[sourcePortIndex]], where outputKeys[sourcePortIndex] is defined
sourcePortValue(sourceNode, sourcePortIndex) == sourceNode[sourcePortIndex + 1][2]

RECURSIVE resolveInputs(_, _, _, _, _)
\* node.inputs.forEach((input, index) => ...), from input number `index` (0-based) on
resolveInputs(node, cs, outputsMap, index, inputs) ==
    IF index >= Len(node.inputs) THEN inputs
    ELSE LET input == node.inputs[index + 1]
             found == {i \in DOMAIN cs : ConnectsInto(cs[i], node.id, index)}
             connection == cs[CHOOSE i \in found : \A j \in found : i <= j]
             sourceNode == MapGet(outputsMap, connection.sourceNodeId)
             \* parseInt(connection.sourcePortId.replace('output-', ''))
             sourcePortIndex == connection.sourcePortId[2]
             next ==
                 IF /\ found # {}
                    /\ MapHas(outputsMap, connection.sourceNodeId)
                    /\ sourcePortIndex + 1 \in DOMAIN sourceNode
                 THEN MapSet(inputs, input.name, sourcePortValue(sourceNode, sourcePortIndex))
                 ELSE inputs
         IN resolveInputs(node, cs, outputsMap, index + 1, next)

\* Object.assign(inputs, node.data), then the connected inputs
getNodeInputs(node, cs, outputsMap) == resolveInputs(node, cs, outputsMap, 0, node.data)

\* x || '' for the values of the model
OrEmpty(v) == IF v = NoValue THEN "" ELSE v

\* the node kinds of the model whose case awaits an external service
AwaitsService(type) == type \in {"llm", "image-gen"}

\* the outputs of the cases that call no service
executeNodeLocal(node, inputs) ==
    CASE node.type = "text-input"   -> << <<"Text", OrEmpty(MapGet(inputs, "text"))>> >>
      [] node.type = "image-upload" -> << <<"Image", OrEmpty(MapGet(inputs, "imageUrl"))>> >>
      [] node.type = "image-output" -> << <<"result", OrEmpty(MapGet(inputs, "Image"))>> >>
      [] OTHER                      -> inputs

\* the outputs of the cases that call a service, from what the service answered
executeNodeRemote(node, response) ==
    CASE node.type = "llm"       -> << <<"OutputText", response>> >>
      [] node.type = "image-gen" -> << <<"Image", response>> >>
      [] OTHER                   -> << >>

onProgress(nodeId, progress) == [cb |-> "onProgress", nodeId |-> nodeId, progress |-> progress]
onNodeComplete(nodeId, outputs) == [cb |-> "onNodeComplete", nodeId |-> nodeId, outputs |-> outputs]
onNodeError(nodeId, message) == [cb |-> "onNodeError", nodeId |-> nodeId, message |-> message]

\* mutant: the outputs of a completed node are not stored
recordOutputs_Skip(outputsMap, nodeId, outputs) == outputsMap

\* context.nodeOutputs.set(nodeId, outputs)
recordOutputs(outputsMap, nodeId, outputs) == MapSet(outputsMap, nodeId, outputs)

\* executeNode's catch block: report, then rethrow
executeNodeCatch(nodeId, message) == << onNodeError(nodeId, message) >>

\* executeWorkflow's catch block: report and go on with the next node
executeWorkflowCatch(nodeId, message) == << onNodeError(nodeId, message) >>

\* mutant: the catch block rethrows, ending the run
afterCatch_Rethrow(i) == [pc |-> "rejected", idx |-> i]

\* mutant: after a failure the next node of the order is skipped
afterCatch_SkipNext(i) == [pc |-> "loop", idx |-> i + 2]

\* where executeWorkflow goes after its catch block
afterCatch(i) == [pc |-> "loop", idx |-> i + 1]

(***************************************************************************)
(* Store actions.  Arguments range over everything a caller can pass: ids  *)
(* of nodes that exist or existed, ids no node has (removeNode), and port  *)
(* ids that the addressed node may not have.                               *)
(***************************************************************************)
StoreKinds == {"text-input", "image-gen", "no-such-kind"}
Positions == {[x |-> 0, y |-> 0]}
NodeIds == 1..MaxNodes
ConnIds == 1..MaxConnIds
OutputPortIds == {<<"output", 0>>}
InputPortIds == {<<"input", 0>>, <<"input", 1>>}

idleExec == /\ pc = "idle" /\ executionOrder = << >> /\ idx = 0
            /\ nodeOutputs = << >> /\ events = << >> /\ calls = << >>
idleTrans == /\ exported = NoValue /\ imported = NoValue /\ validation = NoValue

\* a runAll call that was not made yet
idleRunRecord ==
    [pc |-> "idle", nodes |-> << >>, connections |-> << >>, executionOrder |-> << >>,
     idx |-> 0, nodeOutputs |-> << >>]

idleRun == /\ runs = [r \in 1..MaxRuns |-> idleRunRecord]
           /\ isRunning = FALSE
           /\ storeOutputs = << >>
           /\ executionStates = << >>

\* no connection is being dragged (the initial connectionState, and cancelConnection's)
noConnection ==
    [isConnecting |-> FALSE, sourceNodeId |-> NoValue, sourcePortId |-> NoValue,
     sourcePortType |-> NoValue]

idleConnection == connectionState = noConnection

\* the registry after the plugins were registered
idlePlugins == /\ plugins = loadedManager.plugins
               /\ customNodes = loadedManager.customNodes
               /\ registeredDefinitions = getCustomNodes(loadedManager)

Init ==
    /\ nodes = << >>
    /\ connections = << >>
    /\ nextNodeId = 1
    /\ nextConnId = 1
    /\ lastOp = [op |-> "create"]
    /\ idleExec
    /\ idleTrans
    /\ idleConnection
    /\ idlePlugins
    /\ idleRun

AddNode ==
    \E type \in StoreKinds, position \in Positions :
        /\ nextNodeId <= MaxNodes
        /\ nodes' = addNode(nodes, type, position, nextNodeId)
        \* uuidv4() is drawn only after the definition was found
        /\ nextNodeId' = IF HasNodeDefinition(type) THEN nextNodeId + 1 ELSE nextNodeId
        /\ lastOp' = [op |-> "addNode", type |-> type]
        /\ UNCHANGED <<connections, nextConnId>>
        /\ UNCHANGED <<execVars, transVars, runVars, gestureVars, pluginVars>>

RemoveNode ==
    \E nodeId \in NodeIds :
        /\ nodes' = removeNodeNodes(nodes, nodeId)
        /\ connections' = removeNodeConnections(connections, nodeId)
        /\ lastOp' = [op |-> "removeNode", nodeId |-> nodeId,
                      existed |-> \E i \in DOMAIN nodes : nodes[i].id = nodeId,
                      removed |-> Len(connections) - Len(removeNodeConnections(connections, nodeId))]
        /\ UNCHANGED <<nextNodeId, nextConnId>>
        /\ UNCHANGED <<execVars, transVars, runVars, gestureVars, pluginVars>>

AddConnection ==
    \E s \in NodeIds, sp \in OutputPortIds, t \in NodeIds, tp \in InputPortIds :
        LET connection == [sourceNodeId |-> s, sourcePortId |-> sp,
                           targetNodeId |-> t, targetPortId |-> tp]
        IN /\ nextConnId <= MaxConnIds
           \* a caller knows the ids drawn so far, those of removed nodes included
           /\ s < nextNodeId /\ t < nextNodeId
           /\ connections' = addConnectionConnections(connections, connection, nextConnId)
           /\ nodes' = addConnectionNodes(nodes, connections, connection)
           \* uuidv4() is drawn only when the connection is not a duplicate
           /\ nextConnId' = IF addConnectionExists(connections, connection)
                             THEN nextConnId ELSE nextConnId + 1
           /\ lastOp' = [op |-> "addConnection", connection |-> connection,
                         exists |-> addConnectionExists(connections, connection),
                         targetHasConnection |-> addConnectionTargetHasConnection(connections, connection)]
           /\ UNCHANGED nextNodeId
           /\ UNCHANGED <<execVars, transVars, runVars, gestureVars, pluginVars>>

RemoveConnection ==
    \E connectionId \in ConnIds :
        /\ connections' = removeConnectionConnections(connections, connectionId)
        /\ nodes' = removeConnectionNodes(nodes, connections, connectionId)
        /\ lastOp' = [op |-> "removeConnection", connectionId |-> connectionId,
                      found |-> HasConnectionId(connections, connectionId)]
        /\ UNCHANGED <<nextNodeId, nextConnId>>
        /\ UNCHANGED <<execVars, transVars, runVars, gestureVars, pluginVars>>

\* the patches of the property panel: one key, which a text-input node has and an
\* image-gen node has not
Patches == { << <<"text", "a">> >> }

UpdateNodeData ==
    \E nodeId \in NodeIds, patch \in Patches :
        /\ nodes' = updateNodeData(nodes, nodeId, patch)
        /\ lastOp' = [op |-> "updateNodeData", nodeId |-> nodeId, patch |-> patch]
        /\ UNCHANGED <<connections, nextNodeId, nextConnId>>
        /\ UNCHANGED <<execVars, transVars, runVars, gestureVars, pluginVars>>

Next == AddNode \/ RemoveNode \/ AddConnection \/ RemoveConnection \/ UpdateNodeData

Spec == Init /\ [][Next]_vars

(***************************************************************************)
(* The store as the canvas drives it: every argument names a node and a    *)
(* port that are in the graph when the call is made.  A connection is made *)
(* by addConnection on two such ports, or by the drag gesture of Node.tsx: *)
(* startConnection on an output port, endConnection on an input port.      *)
(***************************************************************************)
\* get().addConnection(connection), the lastOp record left to the caller
addConnectionCall(connection) ==
    /\ nextConnId <= MaxConnIds
    /\ connections' = addConnectionConnections(connections, connection, nextConnId)
    /\ nodes' = addConnectionNodes(nodes, connections, connection)
    /\ nextConnId' = IF addConnectionExists(connections, connection)
                      THEN nextConnId ELSE nextConnId + 1

\* addConnection from an output port of a node of the graph to an input port of one
ConnectPorts ==
    \E i \in DOMAIN nodes, j \in DOMAIN nodes :
      \E sp \in DOMAIN nodes[i].outputs, tp \in DOMAIN nodes[j].inputs :
        LET connection == [sourceNodeId |-> nodes[i].id,
                           sourcePortId |-> nodes[i].outputs[sp].id,
                           targetNodeId |-> nodes[j].id,
                           targetPortId |-> nodes[j].inputs[tp].id]
        IN /\ addConnectionCall(connection)
           /\ lastOp' = [op |-> "addConnection", connection |-> connection,
                         exists |-> addConnectionExists(connections, connection),
                         targetHasConnection |->
                             addConnectionTargetHasConnection(connections, connection)]
           /\ UNCHANGED nextNodeId
           /\ UNCHANGED <<execVars, transVars, runVars, gestureVars, pluginVars>>

\* handlePortMouseDown on an output port: startConnection(node.id, port.id, port.type)
StartConnection ==
    \E i \in DOMAIN nodes : \E sp \in DOMAIN nodes[i].outputs :
        /\ connectionState' = [isConnecting |-> TRUE,
                               sourceNodeId |-> nodes[i].id,
                               sourcePortId |-> nodes[i].outputs[sp].id,
                               sourcePortType |-> nodes[i].outputs[sp].type]
        /\ lastOp' = [op |-> "startConnection", nodeId |-> nodes[i].id]
        /\ UNCHANGED <<nodes, connections, nextNodeId, nextConnId>>
        /\ UNCHANGED <<execVars, transVars, runVars, pluginVars>>

\* handlePortMouseUp on an input port: endConnection(node.id, port.id) when the types
\* agree; endConnection adds the connection and cancels the gesture
EndConnection ==
    \E j \in DOMAIN nodes : \E tp \in DOMAIN nodes[j].inputs :
        LET port == nodes[j].inputs[tp]
            connection == [sourceNodeId |-> connectionState.sourceNodeId,
                           sourcePortId |-> connectionState.sourcePortId,
                           targetNodeId |-> nodes[j].id,
                           targetPortId |-> port.id]
        IN /\ connectionState.isConnecting
           /\ \/ connectionState.sourcePortType = port.type
              \/ connectionState.sourcePortType = "any"
              \/ port.type = "any"
           /\ addConnectionCall(connection)
           /\ connectionState' = noConnection
           /\ lastOp' = [op |-> "endConnection", connection |-> connection]
           /\ UNCHANGED nextNodeId
           /\ UNCHANGED <<execVars, transVars, runVars, pluginVars>>

\* mouse up on the canvas: cancelConnection()
CancelConnection ==
    /\ connectionState.isConnecting
    /\ connectionState' = noConnection
    /\ lastOp' = [op |-> "cancelConnection"]
    /\ UNCHANGED <<nodes, connections, nextNodeId, nextConnId>>
    /\ UNCHANGED <<execVars, transVars, runVars, pluginVars>>

NextWired == AddNode \/ RemoveNode \/ ConnectPorts \/ RemoveConnection

SpecWired == Init /\ [][NextWired]_vars

NextCanvas == NextWired \/ StartConnection \/ EndConnection \/ CancelConnection

SpecCanvas == Init /\ [][NextCanvas]_vars

(***************************************************************************)
(* The plugin panel (components/PluginPanel.tsx) driving the plugin        *)
(* manager: plugins are registered (the built-in ones, or a plugin file    *)
(* through loadPluginFromJSON), switched on and off, and uninstalled.      *)
(***************************************************************************)
PluginIds == {"comfy-core", "tiling"}

\* the node lists a plugin may declare
PluginNodeLists == { << LoraLoader >>, << tiler >>, << LoraLoader, tiler >> }

\* a new manager and the definitions module before any setCustomNodeDefinitions
InitPlugins ==
    /\ nodes = << >>
    /\ connections = << >>
    /\ nextNodeId = 1
    /\ nextConnId = 1
    /\ lastOp = [op |-> "create"]
    /\ idleExec
    /\ idleTrans
    /\ idleConnection
    /\ idleRun
    /\ plugins = emptyManager.plugins
    /\ customNodes = emptyManager.customNodes
    /\ registeredDefinitions = << >>

\* the manager as the variables hold it
manager == [plugins |-> plugins, customNodes |-> customNodes]

\* registerPlugin(plugin), with its updateNodeDefinitions()
RegisterPlugin ==
    \E id \in PluginIds, enabled \in BOOLEAN, comfyNodes \in PluginNodeLists :
        LET plugin == [id |-> id, enabled |-> enabled, nodes |-> comfyNodes]
            after == registerPlugin(manager, plugin)
        IN /\ plugins' = after.plugins
           /\ customNodes' = after.customNodes
           /\ registeredDefinitions' = getCustomNodes(after)
           /\ lastOp' = [op |-> "registerPlugin", plugin |-> plugin]
           /\ UNCHANGED <<nodes, connections, nextNodeId, nextConnId>>
           /\ UNCHANGED <<execVars, transVars, runVars, gestureVars>>

\* unregisterPlugin(pluginId); updateNodeDefinitions() only when the plugin is found
UnregisterPlugin ==
    \E id \in PluginIds :
        LET after == unregisterPlugin(manager, id)
        IN /\ plugins' = after.plugins
           /\ customNodes' = after.customNodes
           /\ registeredDefinitions' = IF MapHas(plugins, id) THEN getCustomNodes(after)
                                        ELSE registeredDefinitions
           /\ lastOp' = [op |-> "unregisterPlugin", pluginId |-> id]
           /\ UNCHANGED <<nodes, connections, nextNodeId, nextConnId>>
           /\ UNCHANGED <<execVars, transVars, runVars, gestureVars>>

\* togglePlugin(pluginId, enabled); updateNodeDefinitions() only when the plugin is found
TogglePlugin ==
    \E id \in PluginIds, enabled \in BOOLEAN :
        LET after == togglePlugin(manager, id, enabled)
        IN /\ plugins' = after.plugins
           /\ customNodes' = after.customNodes
           /\ registeredDefinitions' = IF MapHas(plugins, id) THEN getCustomNodes(after)
                                        ELSE registeredDefinitions
           /\ lastOp' = [op |-> "togglePlugin", pluginId |-> id, enabled |-> enabled]
           /\ UNCHANGED <<nodes, connections, nextNodeId, nextConnId>>
           /\ UNCHANGED <<execVars, transVars, runVars, gestureVars>>

NextPlugins == RegisterPlugin \/ UnregisterPlugin \/ TogglePlugin

SpecPlugins == InitPlugins /\ [][NextPlugins]_vars

(***************************************************************************)
(* Workflows handed to executeWorkflow.  loadWorkflow installs any node    *)
(* and connection lists (a template, a file), so the lists need not be     *)
(* ones the store operations can build: a connection list may hold cycles, *)
(* self-loops and several connections into one input.                      *)
(***************************************************************************)
GraphKinds == {"text-input", "llm", "ksampler"}
Responses == {"hi"}

\* a node of a kind with no definition, as a loaded file describes it
foreignNodeInstance(type, id) ==
    [id |-> id, type |-> type, position |-> [x |-> 0, y |-> 0], data |-> << >>,
     inputs |-> << [id |-> <<"input", 0>>, name |-> "in", type |-> "any",
                    connected |-> FALSE, widget |-> FALSE] >>,
     outputs |-> << [id |-> <<"output", 0>>, name |-> "out", type |-> "any",
                     connected |-> FALSE] >>]

graphNode(type, id) ==
    IF HasNodeDefinition(type)
    THEN createNodeInstance(getNodeDefinition(type), [x |-> 0, y |-> 0], id)
    ELSE foreignNodeInstance(type, id)

graphConnection(id, s, t) ==
    [id |-> id, sourceNodeId |-> s, sourcePortId |-> <<"output", 0>>,
     targetNodeId |-> t, targetPortId |-> <<"input", 0>>]

\* the ids a loaded connection may name: the n nodes and 0, the id of no node
LoadedIds(n) == 0..n

\* nodes, connections is any workflow of n nodes (ids 1..n, kinds from `kinds`) and m
\* connections between ids of LoadedIds(n), with n + m <= MaxGraphSize
LoadedGraph(kinds) ==
    \E n \in 0..MaxGraphSize : \E m \in 0..(MaxGraphSize - n) :
        \E k \in [1..n -> kinds], e \in [1..m -> LoadedIds(n) \X LoadedIds(n)] :
            /\ nodes = [i \in 1..n |-> graphNode(k[i], i)]
            /\ connections = [i \in 1..m |-> graphConnection(i, e[i][1], e[i][2])]

InitExec ==
    /\ LoadedGraph(GraphKinds)
    /\ nextNodeId = 1
    /\ nextConnId = 1
    /\ lastOp = [op |-> "loadWorkflow"]
    /\ idleExec
    /\ idleTrans
    /\ idleConnection
    /\ idlePlugins
    /\ idleRun

\* executeWorkflow, up to the for loop
StartRun ==
    /\ pc = "idle"
    /\ pc' = "loop"
    /\ executionOrder' = getExecutionOrder(nodes, connections)
    /\ idx' = 1
    /\ nodeOutputs' = << >>
    /\ events' = << >>
    /\ calls' = << >>
    /\ UNCHANGED <<storeVars, transVars, runVars, gestureVars, pluginVars>>

\* one iteration of the for loop, up to the end of the iteration or to the await of
\* a service call inside executeNode
Dispatch ==
    /\ pc = "loop"
    /\ idx <= Len(executionOrder)
    /\ LET nodeId == executionOrder[idx]
           node == FindNode(nodes, nodeId)
           inputs == getNodeInputs(node, connections, nodeOutputs)
           outputs == executeNodeLocal(node, inputs)
       IN IF ~HasNode(nodes, nodeId)
          THEN \* if (!node) continue
               /\ idx' = idx + 1
               /\ UNCHANGED <<pc, nodeOutputs, events, calls>>
          ELSE IF ~HasNodeDefinition(node.type)
          THEN \* executeNode throws before its try block
               /\ calls' = Append(calls, [nodeId |-> nodeId, inputs |-> NoValue])
               /\ events' = events \o executeWorkflowCatch(nodeId, "unknown node type")
               /\ pc' = afterCatch(idx).pc
               /\ idx' = afterCatch(idx).idx
               /\ UNCHANGED nodeOutputs
          ELSE IF AwaitsService(node.type)
          THEN /\ calls' = Append(calls, [nodeId |-> nodeId, inputs |-> inputs])
               /\ events' = events \o << onProgress(nodeId, 10), onProgress(nodeId, 30) >>
               /\ pc' = "awaiting"
               /\ UNCHANGED <<idx, nodeOutputs>>
          ELSE /\ calls' = Append(calls, [nodeId |-> nodeId, inputs |-> inputs])
               /\ events' = events \o << onProgress(nodeId, 10), onProgress(nodeId, 100),
                                          onNodeComplete(nodeId, outputs) >>
               /\ nodeOutputs' = recordOutputs(nodeOutputs, nodeId, outputs)
               /\ idx' = idx + 1
               /\ UNCHANGED pc
    /\ UNCHANGED executionOrder
    /\ UNCHANGED <<storeVars, transVars, runVars, gestureVars, pluginVars>>

\* the awaited service call resolves: executeNode returns, executeWorkflow stores
ServiceResolves ==
    /\ pc = "awaiting"
    /\ \E response \in Responses :
          LET nodeId == executionOrder[idx]
              outputs == executeNodeRemote(FindNode(nodes, nodeId), response)
          IN /\ events' = events \o << onProgress(nodeId, 100), onNodeComplete(nodeId, outputs) >>
             /\ nodeOutputs' = recordOutputs(nodeOutputs, nodeId, outputs)
    /\ pc' = "loop"
    /\ idx' = idx + 1
    /\ UNCHANGED <<executionOrder, calls>>
    /\ UNCHANGED <<storeVars, transVars, runVars, gestureVars, pluginVars>>

\* the awaited service call rejects: executeNode's catch, then executeWorkflow's
ServiceRejects ==
    /\ pc = "awaiting"
    /\ LET nodeId == executionOrder[idx]
       IN events' = events \o executeNodeCatch(nodeId, "rejected")
                           \o executeWorkflowCatch(nodeId, "rejected")
    /\ pc' = afterCatch(idx).pc
    /\ idx' = afterCatch(idx).idx
    /\ UNCHANGED <<executionOrder, nodeOutputs, calls>>
    /\ UNCHANGED <<storeVars, transVars, runVars, gestureVars, pluginVars>>

\* the for loop is over: return context.nodeOutputs
Finish ==
    /\ pc = "loop"
    /\ idx > Len(executionOrder)
    /\ pc' = "done"
    /\ UNCHANGED <<executionOrder, idx, nodeOutputs, events, calls>>
    /\ UNCHANGED <<storeVars, transVars, runVars, gestureVars, pluginVars>>

NextExec == StartRun \/ Dispatch \/ ServiceResolves \/ ServiceRejects \/ Finish

SpecExec == InitExec /\ [][NextExec]_vars

(***************************************************************************)
(* Workflows for input resolution: nodes with literal data under the names *)
(* of their inputs (a plugin node's widget inputs), connections from and   *)
(* to any port number.  The scheduler's actions are those of SpecExec.     *)
(***************************************************************************)
MaxResolveSize == 4   \* nodes plus connections of a workflow whose inputs are resolved

ResolveKinds == {"text-input", "llm", "comfy-tiler"}
ResolvePorts == {0, 1}

\* the literal data of a node of the kind: the definition's defaults (addNode) or, for a
\* plugin node, no data (PluginManager.importComfyWorkflow of a node without widget values)
ResolveData(type) ==
    IF type = "comfy-tiler" THEN {getNodeDefinition(type).defaultData, << >>}
    ELSE {getNodeDefinition(type).defaultData}

portConnection(id, s, sp, t, tp) ==
    [id |-> id, sourceNodeId |-> s, sourcePortId |-> <<"output", sp>>,
     targetNodeId |-> t, targetPortId |-> <<"input", tp>>]

InitResolve ==
    /\ \E n \in 1..MaxResolveSize : \E m \in 0..(MaxResolveSize - n) :
         \E k \in [1..n -> ResolveKinds] :
           \E d \in [1..n -> UNION {ResolveData(t) : t \in ResolveKinds}] :
             \E e \in [1..m -> (1..n) \X ResolvePorts \X (1..n) \X ResolvePorts] :
               /\ \A i \in 1..n : d[i] \in ResolveData(k[i])
               /\ nodes = [i \in 1..n |-> [graphNode(k[i], i) EXCEPT !.data = d[i]]]
               /\ connections = [i \in 1..m |->
                                   portConnection(i, e[i][1], e[i][2], e[i][3], e[i][4])]
    /\ nextNodeId = 1
    /\ nextConnId = 1
    /\ lastOp = [op |-> "loadWorkflow"]
    /\ idleExec
    /\ idleTrans
    /\ idleConnection
    /\ idlePlugins
    /\ idleRun

SpecResolve == InitResolve /\ [][NextExec]_vars

(***************************************************************************)
(* runAll (store/index.ts): executeWorkflow run against the store, its     *)
(* callbacks writing executionStates and nodeOutputs.  Every call of       *)
(* runAll is a coroutine of its own; runs[r] holds its position and the    *)
(* locals of its executeWorkflow.  The field `run` of a store entry names  *)
(* the call whose callback wrote it; the program does not keep it.         *)
(* runAll calls and service completions arrive as tasks of the event loop, *)
(* which runs the continuations of a task to their next await before it    *)
(* takes another task: while a run is in its loop (Runnable) nothing else  *)
(* happens.                                                                *)
(***************************************************************************)
\* the runs whose continuation is ready to run
Runnable == {r \in 1..MaxRuns : runs[r].pc = "loop"}

\* setNodeExecutionState: the new executionStates
setNodeExecutionState(states, state) ==
    Append(SelectSeq(states, LAMBDA e : e.nodeId # state.nodeId), state)

\* mutant: the outputs of a completed node are also written into its literal data
setNodeOutputs_IntoNodeData(store, nodeId, outputs, r) ==
    [store EXCEPT !.nodeOutputs = MapSet(@, nodeId, [outputs |-> outputs, run |-> r]),
                  !.nodes = updateNodeData(@, nodeId, outputs)]

\* set(state => { newOutputs.set(nodeId, nodeOutputs); return { nodeOutputs: newOutputs } })
setNodeOutputs(store, nodeId, outputs, r) ==
    [store EXCEPT !.nodeOutputs = MapSet(@, nodeId, [outputs |-> outputs, run |-> r])]

\* the three callbacks runAll hands to executeWorkflow, applied to the store
\* [nodes, connections, executionStates, nodeOutputs]
runAllCallback(store, event, r) ==
    IF event.cb = "onProgress"
    THEN [store EXCEPT !.executionStates =
             setNodeExecutionState(@, [nodeId |-> event.nodeId, status |-> "running",
                                       progress |-> event.progress, run |-> r])]
    ELSE IF event.cb = "onNodeComplete"
    THEN setNodeOutputs([store EXCEPT !.executionStates =
                            setNodeExecutionState(@, [nodeId |-> event.nodeId,
                                                      status |-> "completed",
                                                      progress |-> 100, run |-> r])],
                        event.nodeId, event.outputs, r)
    ELSE [store EXCEPT !.executionStates =
             setNodeExecutionState(@, [nodeId |-> event.nodeId, status |-> "error",
                                       progress |-> 0, run |-> r])]

RECURSIVE runAllCallbacks(_, _, _, _)
\* the callbacks for the events evs[i..], in order
runAllCallbacks(store, evs, i, r) ==
    IF i > Len(evs) THEN store
    ELSE runAllCallbacks(runAllCallback(store, evs[i], r), evs, i + 1, r)

\* the store after run r emitted the events evs
Emit(evs, r) ==
    LET store == runAllCallbacks([nodes |-> nodes, connections |-> connections,
                                  executionStates |-> executionStates,
                                  nodeOutputs |-> storeOutputs], evs, 1, r)
    IN /\ nodes' = store.nodes
       /\ connections' = store.connections
       /\ executionStates' = store.executionStates
       /\ storeOutputs' = store.nodeOutputs

RunKinds == {"text-input", "llm"}

\* a workflow of up to MaxNodes nodes, unconnected or connected in a chain
InitRun ==
    /\ \E n \in 0..MaxNodes : \E k \in [1..n -> RunKinds], chain \in BOOLEAN :
          /\ nodes = [i \in 1..n |-> graphNode(k[i], i)]
          /\ connections = IF chain THEN [i \in 1..(n - 1) |-> graphConnection(i, i, i + 1)]
                           ELSE << >>
          /\ nextNodeId = n + 1
          /\ nextConnId = n
    /\ lastOp = [op |-> "loadWorkflow"]
    /\ idleExec
    /\ idleTrans
    /\ idleConnection
    /\ idlePlugins
    /\ idleRun

\* runAll up to the await of executeWorkflow, as the r-th call
runAllStart(r) ==
    /\ Runnable = {}
    /\ runs[r].pc = "idle"
    /\ \A q \in 1..(r - 1) : runs[q].pc # "idle"
    /\ IF Len(nodes) = 0
       THEN /\ runs' = [runs EXCEPT ![r].pc = "returned"]
            /\ UNCHANGED <<isRunning, storeOutputs, executionStates>>
       ELSE /\ runs' = [runs EXCEPT ![r] =
                          [pc |-> "loop", nodes |-> nodes, connections |-> connections,
                           executionOrder |-> getExecutionOrder(nodes, connections),
                           idx |-> 1, nodeOutputs |-> << >>]]
            /\ isRunning' = TRUE
            /\ storeOutputs' = << >>
            /\ executionStates' = << >>
    /\ UNCHANGED <<storeVars, execVars, transVars, gestureVars, pluginVars>>

\* runAll called on the store
RunAll == \E r \in 1..MaxRuns : runAllStart(r)

\* the run button of the canvas
HandleRunAll ==
    /\ ~(Len(nodes) = 0 \/ isRunning)
    /\ \E r \in 1..MaxRuns : runAllStart(r)

\* one iteration of the for loop of the executeWorkflow of run r
RunDispatch ==
    \E r \in 1..MaxRuns :
        /\ runs[r].pc = "loop"
        /\ runs[r].idx <= Len(runs[r].executionOrder)
        /\ LET run == runs[r]
               nodeId == run.executionOrder[run.idx]
               node == FindNode(run.nodes, nodeId)
               inputs == getNodeInputs(node, run.connections, run.nodeOutputs)
               outputs == executeNodeLocal(node, inputs)
           IN IF ~HasNode(run.nodes, nodeId)
              THEN /\ runs' = [runs EXCEPT ![r].idx = run.idx + 1]
                   /\ UNCHANGED <<nodes, connections, storeOutputs, executionStates>>
              ELSE IF ~HasNodeDefinition(node.type)
              THEN /\ runs' = [runs EXCEPT ![r].pc = afterCatch(run.idx).pc,
                                           ![r].idx = afterCatch(run.idx).idx]
                   /\ Emit(executeWorkflowCatch(nodeId, "unknown node type"), r)
              ELSE IF AwaitsService(node.type)
              THEN /\ runs' = [runs EXCEPT ![r].pc = "awaiting"]
                   /\ Emit(<< onProgress(nodeId, 10), onProgress(nodeId, 30) >>, r)
              ELSE /\ runs' = [runs EXCEPT ![r].idx = run.idx + 1,
                                           ![r].nodeOutputs = recordOutputs(@, nodeId, outputs)]
                   /\ Emit(<< onProgress(nodeId, 10), onProgress(nodeId, 100),
                              onNodeComplete(nodeId, outputs) >>, r)
        /\ UNCHANGED isRunning
        /\ UNCHANGED <<nextNodeId, nextConnId, lastOp, execVars, transVars, gestureVars, pluginVars>>

\* the service call awaited by run r resolves
RunServiceResolves ==
    \E r \in 1..MaxRuns, response \in Responses :
        /\ Runnable = {}
        /\ runs[r].pc = "awaiting"
        /\ LET run == runs[r]
               nodeId == run.executionOrder[run.idx]
               outputs == executeNodeRemote(FindNode(run.nodes, nodeId), response)
           IN /\ runs' = [runs EXCEPT ![r].pc = "loop", ![r].idx = run.idx + 1,
                                      ![r].nodeOutputs = recordOutputs(@, nodeId, outputs)]
              /\ Emit(<< onProgress(nodeId, 100), onNodeComplete(nodeId, outputs) >>, r)
        /\ UNCHANGED isRunning
        /\ UNCHANGED <<nextNodeId, nextConnId, lastOp, execVars, transVars, gestureVars, pluginVars>>

\* the service call awaited by run r rejects
RunServiceRejects ==
    \E r \in 1..MaxRuns :
        /\ Runnable = {}
        /\ runs[r].pc = "awaiting"
        /\ LET run == runs[r]
               nodeId == run.executionOrder[run.idx]
           IN /\ runs' = [runs EXCEPT ![r].pc = afterCatch(run.idx).pc,
                                      ![r].idx = afterCatch(run.idx).idx]
              /\ Emit(executeNodeCatch(nodeId, "rejected")
                         \o executeWorkflowCatch(nodeId, "rejected"), r)
        /\ UNCHANGED isRunning
        /\ UNCHANGED <<nextNodeId, nextConnId, lastOp, execVars, transVars, gestureVars, pluginVars>>

\* executeWorkflow of run r returned: set({ isRunning: false })
RunFinish ==
    \E r \in 1..MaxRuns :
        /\ runs[r].pc = "loop"
        /\ runs[r].idx > Len(runs[r].executionOrder)
        /\ runs' = [runs EXCEPT ![r].pc = "done"]
        /\ isRunning' = FALSE
        /\ UNCHANGED <<storeOutputs, executionStates>>
        /\ UNCHANGED <<storeVars, execVars, transVars, gestureVars, pluginVars>>

NextRun == RunAll \/ HandleRunAll \/ RunDispatch \/ RunServiceResolves \/ RunServiceRejects
              \/ RunFinish

SpecRun == InitRun /\ [][NextRun]_vars

(***************************************************************************)
(* A workflow session: runs, and between the tasks of the runs the calls   *)
(* that change the graph under them (removeNode, clearWorkflow,            *)
(* loadWorkflow).                                                          *)
(***************************************************************************)
\* removeNode called from the canvas, between two tasks of the event loop
SessionRemoveNode == Runnable = {} /\ RemoveNode

\* clearWorkflow: set({ nodes: [], connections: [], selectedNodeIds: [], executionStates: [] })
ClearWorkflow ==
    /\ Runnable = {}
    /\ nodes' = << >>
    /\ connections' = << >>
    /\ executionStates' = << >>
    /\ lastOp' = [op |-> "clearWorkflow"]
    /\ UNCHANGED <<nextNodeId, nextConnId, runs, isRunning, storeOutputs>>
    /\ UNCHANGED <<execVars, transVars, gestureVars, pluginVars>>

\* the workflow of a template of n nodes: a text-input node, then llm nodes in a chain
templateNodes(n) == [i \in 1..n |-> graphNode(IF i = 1 THEN "text-input" ELSE "llm", i)]
templateConnections(n) == [i \in 1..(n - 1) |-> graphConnection(i, i, i + 1)]

\* TemplatePanel: loadWorkflow(template.nodes, template.connections), which is
\* set({ nodes, connections, selectedNodeIds: [], executionStates: [] })
LoadWorkflow ==
    \E n \in 1..MaxNodes :
        /\ Runnable = {}
        /\ nodes' = templateNodes(n)
        /\ connections' = templateConnections(n)
        /\ executionStates' = << >>
        /\ lastOp' = [op |-> "loadWorkflow"]
        /\ UNCHANGED <<nextNodeId, nextConnId, runs, isRunning, storeOutputs>>
        /\ UNCHANGED <<execVars, transVars, gestureVars, pluginVars>>

NextSession == NextRun \/ SessionRemoveNode \/ ClearWorkflow \/ LoadWorkflow

SpecSession == InitRun /\ [][NextSession]_vars

(***************************************************************************)
(* Workflow validation (components/CustomNodeEditor.tsx, validateWorkflow).*)
(* A message is a record of its kind and of the values interpolated in it. *)
(***************************************************************************)
\* mutant: only the source end of a connection counts as connected
connectedNodeIds_SourcesOnly(cs) ==
    {cs[i].sourceNodeId : i \in DOMAIN cs}

\* const connectedNodeIds
connectedNodeIds(cs) ==
    {cs[i].sourceNodeId : i \in DOMAIN cs} \cup {cs[i].targetNodeId : i \in DOMAIN cs}

\* the warnings of the loop over the nodes that looks for isolated nodes
unconnectedNodeWarnings(ns, cs) ==
    LET isolated == SelectSeq(ns, LAMBDA n : n.id \notin connectedNodeIds(cs) /\ Len(ns) > 1)
    IN [i \in DOMAIN isolated |-> [kind |-> "unconnectedNode", type |-> isolated[i].type]]

RECURSIVE hasCycle(_, _, _, _)
RECURSIVE hasCycleOutgoing(_, _, _, _, _)

\* function hasCycle(nodeId), with the sets it shares across calls passed along:
\* [found, visited, recursionStack]
hasCycle(cs, nodeId, visited, recursionStack) ==
    hasCycleOutgoing(cs, nodeId,
                     SelectSeq(cs, LAMBDA c : c.sourceNodeId = nodeId),
                     visited \cup {nodeId}, recursionStack \cup {nodeId})

\* mutant: every visited target counts as a cycle, on the recursion stack or not
hasCycleOutgoing_VisitedIsCycle(cs, nodeId, outgoing, visited, recursionStack) ==
    IF outgoing = << >>
    THEN [found |-> FALSE, visited |-> visited, recursionStack |-> recursionStack \ {nodeId}]
    ELSE LET target == Head(outgoing).targetNodeId
             inner == hasCycle(cs, target, visited, recursionStack)
         IN IF target \notin visited
            THEN IF inner.found
                 THEN [found |-> TRUE, visited |-> inner.visited,
                       recursionStack |-> inner.recursionStack]
                 ELSE hasCycleOutgoing(cs, nodeId, Tail(outgoing),
                                       inner.visited, inner.recursionStack)
            ELSE [found |-> TRUE, visited |-> visited, recursionStack |-> recursionStack]

\* for (const conn of outgoing), then recursionStack.delete(nodeId)
hasCycleOutgoing(cs, nodeId, outgoing, visited, recursionStack) ==
    IF outgoing = << >>
    THEN [found |-> FALSE, visited |-> visited, recursionStack |-> recursionStack \ {nodeId}]
    ELSE LET target == Head(outgoing).targetNodeId
             inner == hasCycle(cs, target, visited, recursionStack)
         IN IF target \notin visited
            THEN IF inner.found
                 THEN [found |-> TRUE, visited |-> inner.visited,
                       recursionStack |-> inner.recursionStack]
                 ELSE hasCycleOutgoing(cs, nodeId, Tail(outgoing),
                                       inner.visited, inner.recursionStack)
            ELSE IF target \in recursionStack
                 THEN [found |-> TRUE, visited |-> visited, recursionStack |-> recursionStack]
                 ELSE hasCycleOutgoing(cs, nodeId, Tail(outgoing), visited, recursionStack)

RECURSIVE cycleErrors(_, _, _, _)
\* mutant: the search starts from the first node only
cycleErrors_FirstNodeOnly(ns, cs, i, visited) ==
    IF i > 1 \/ Len(ns) = 0 THEN << >>
    ELSE IF hasCycle(cs, ns[1].id, visited, {}).found THEN << [kind |-> "cycle"] >>
    ELSE << >>

\* for (const node of nodes) if (!visited.has(node.id)) if (hasCycle(node.id)) ...; break
cycleErrors(ns, cs, i, visited) ==
    IF i > Len(ns) THEN << >>
    ELSE IF ns[i].id \in visited THEN cycleErrors(ns, cs, i + 1, visited)
    ELSE LET r == hasCycle(cs, ns[i].id, visited, {})
         IN IF r.found THEN << [kind |-> "cycle"] >>
            ELSE cycleErrors(ns, cs, i + 1, r.visited)

\* the warnings for the inputs of one node that have neither a widget nor a connection
unconnectedInputWarnings(node, cs) ==
    IF ~HasNodeDefinition(node.type) THEN << >>
    ELSE LET open == SelectSeq(node.inputs, LAMBDA input :
                         /\ ~input.widget
                         /\ ~input.connected
                         /\ ~\E j \in DOMAIN cs : /\ cs[j].targetNodeId = node.id
                                                  /\ cs[j].targetPortId = input.id)
         IN [i \in DOMAIN open |-> [kind |-> "unconnectedInput", type |-> node.type,
                                     input |-> open[i].name]]

RECURSIVE Flatten(_)
Flatten(ss) == IF ss = << >> THEN << >> ELSE Head(ss) \o Flatten(Tail(ss))

validateWorkflow(ns, cs) ==
    IF Len(ns) = 0
    THEN [valid |-> TRUE, errors |-> << >>, warnings |-> << [kind |-> "empty"] >>]
    ELSE LET errors == cycleErrors(ns, cs, 1, {})
         IN [valid |-> Len(errors) = 0,
             errors |-> errors,
             warnings |-> unconnectedNodeWarnings(ns, cs)
                            \o Flatten([i \in DOMAIN ns |-> unconnectedInputWarnings(ns[i], cs)])]

InitValidate ==
    /\ LoadedGraph(GraphKinds)
    /\ nextNodeId = 1
    /\ nextConnId = 1
    /\ lastOp = [op |-> "loadWorkflow"]
    /\ idleExec
    /\ idleTrans
    /\ idleConnection
    /\ idlePlugins
    /\ idleRun

Validate ==
    /\ pc = "idle"
    /\ pc' = "validated"
    /\ validation' = validateWorkflow(nodes, connections)
    /\ UNCHANGED <<storeVars, executionOrder, idx, nodeOutputs, events, calls,
                   exported, imported, runVars, gestureVars, pluginVars>>

NextValidate == Validate

SpecValidate == InitValidate /\ [][NextValidate]_vars

(***************************************************************************)
(* Format translator (components/CustomNodeEditor.tsx).  The external      *)
(* document is [last_node_id, last_link_id, nodes, links]; a link record   *)
(* is the tuple <<id, source, sourceSlot, target, targetSlot, type>>; the  *)
(* link of an input that has none (null in the document) is NullLink.      *)
(***************************************************************************)
NullLink == 0

comfyTypeMap ==
    << <<"MODEL", "model">>, <<"CLIP", "clip">>, <<"VAE", "vae">>, <<"LATENT", "latent">>,
       <<"IMAGE", "image">>, <<"MASK", "mask">>, <<"CONDITIONING", "conditioning">>,
       <<"CONTROL_NET", "control_net">>, <<"INT", "int">>, <<"FLOAT", "float">>,
       <<"STRING", "text">>, <<"BOOLEAN", "boolean">> >>

comfyNodeTypeMap ==
    << <<"CheckpointLoaderSimple", "checkpoint-loader">>, <<"KSampler", "ksampler">>,
       <<"CLIPTextEncode", "clip-text-encode">>, <<"VAEDecode", "vae-decode">>,
       <<"VAEEncode", "vae-encode">>, <<"EmptyLatentImage", "empty-latent">>,
       <<"SaveImage", "image-output">>, <<"LoadImage", "image-upload">>,
       <<"PreviewImage", "image-output">> >>

RECURSIVE reverseEntries(_, _, _)
\* for (const [comfy, join] of Object.entries(m)) reverse[join] = comfy
reverseEntries(m, i, reverse) ==
    IF i > Len(m) THEN reverse
    ELSE reverseEntries(m, i + 1, MapSet(reverse, m[i][2], m[i][1]))

reverseTypeMap == reverseEntries(comfyTypeMap, 1, << >>)
reverseNodeTypeMap == reverseEntries(comfyNodeTypeMap, 1, << >>)

\* the names outside the dictionaries that the model handles, with what the string
\* operations of the translators make of them: [name, lower |-> name.toLowerCase(),
\* comfyPrefixed |-> name.startsWith('comfy-'),
\* recovered |-> the name without 'comfy-' and dashes, first letter in upper case,
\* withoutComfy |-> name.replace('comfy-', '')]
OtherNames ==
    << [name |-> "LoraLoader", lower |-> "loraloader", comfyPrefixed |-> FALSE,
        recovered |-> "LoraLoader", withoutComfy |-> "LoraLoader"],
       [name |-> "Loraloader", lower |-> "loraloader", comfyPrefixed |-> FALSE,
        recovered |-> "Loraloader", withoutComfy |-> "Loraloader"],
       [name |-> "comfy-loraloader", lower |-> "comfy-loraloader", comfyPrefixed |-> TRUE,
        recovered |-> "Loraloader", withoutComfy |-> "loraloader"],
       [name |-> "comfy-LoraLoader", lower |-> "comfy-loraloader", comfyPrefixed |-> TRUE,
        recovered |-> "LoraLoader", withoutComfy |-> "LoraLoader"],
       [name |-> "comfy-tiler", lower |-> "comfy-tiler", comfyPrefixed |-> TRUE,
        recovered |-> "Tiler", withoutComfy |-> "tiler"],
       [name |-> "Tiler", lower |-> "tiler", comfyPrefixed |-> FALSE,
        recovered |-> "Tiler", withoutComfy |-> "Tiler"],
       [name |-> "SaveImage", lower |-> "saveimage", comfyPrefixed |-> FALSE,
        recovered |-> "SaveImage", withoutComfy |-> "SaveImage"],
       [name |-> "PreviewImage", lower |-> "previewimage", comfyPrefixed |-> FALSE,
        recovered |-> "PreviewImage", withoutComfy |-> "PreviewImage"],
       [name |-> "comfy-SaveImage", lower |-> "comfy-saveimage", comfyPrefixed |-> TRUE,
        recovered |-> "SaveImage", withoutComfy |-> "SaveImage"],
       [name |-> "comfy-PreviewImage", lower |-> "comfy-previewimage", comfyPrefixed |-> TRUE,
        recovered |-> "PreviewImage", withoutComfy |-> "PreviewImage"] >>

NameEntry(name) ==
    IF \E i \in DOMAIN OtherNames : OtherNames[i].name = name
    THEN OtherNames[CHOOSE i \in DOMAIN OtherNames : OtherNames[i].name = name]
    ELSE [name |-> name, lower |-> name, comfyPrefixed |-> FALSE, recovered |-> name,
          withoutComfy |-> name]

\* comfyNodeTypeMap[comfyNode.type] || `comfy-${comfyNode.type.toLowerCase()}`
importNodeType(comfyType) ==
    IF MapHas(comfyNodeTypeMap, comfyType) THEN MapGet(comfyNodeTypeMap, comfyType)
    ELSE "comfy-" \o NameEntry(comfyType).lower

\* comfyTypeMap[type] || 'any'
importPortType(type) ==
    IF MapHas(comfyTypeMap, type) THEN MapGet(comfyTypeMap, type) ELSE "any"

RECURSIVE importWidgetData(_, _, _, _)
\* definition.inputs.forEach((input, index) => ...)
importWidgetData(inputs, widgets_values, index, data) ==
    IF index > Len(inputs) THEN data
    ELSE importWidgetData(inputs, widgets_values, index + 1,
            IF inputs[index].widget /\ index <= Len(widgets_values)
            THEN MapSet(data, inputs[index].name, widgets_values[index])
            ELSE data)

\* const data, filled from comfyNode.widgets_values
importData(nodeType, widgets_values) ==
    IF HasNodeDefinition(nodeType)
    THEN importWidgetData(getNodeDefinition(nodeType).inputs, widgets_values, 1, << >>)
    ELSE [i \in DOMAIN widgets_values |-> <<"param_" \o ToString(i - 1), widgets_values[i]>>]

\* one iteration of the loop over workflow.nodes; an imported port has no widget
importNode(comfyNode, nodeId) ==
    [id |-> nodeId,
     type |-> importNodeType(comfyNode.type),
     position |-> [x |-> comfyNode.pos[1], y |-> comfyNode.pos[2]],
     data |-> importData(importNodeType(comfyNode.type), comfyNode.widgets_values),
     inputs |-> [i \in DOMAIN comfyNode.inputs |->
                   [id |-> <<"input", i - 1>>,
                    name |-> comfyNode.inputs[i].name,
                    type |-> importPortType(comfyNode.inputs[i].type),
                    connected |-> comfyNode.inputs[i].link # NullLink,
                    widget |-> FALSE]],
     outputs |-> [i \in DOMAIN comfyNode.outputs |->
                   [id |-> <<"output", i - 1>>,
                    name |-> comfyNode.outputs[i].name,
                    type |-> importPortType(comfyNode.outputs[i].type),
                    connected |-> Len(comfyNode.outputs[i].links) > 0]],
     size |-> [width |-> comfyNode.size[1], height |-> comfyNode.size[2]]]

RECURSIVE importNodeIdMap(_, _, _, _)
\* nodeIdMap.set(comfyNode.id, nodeId) over workflow.nodes
importNodeIdMap(comfyNodes, i, firstId, nodeIdMap) ==
    IF i > Len(comfyNodes) THEN nodeIdMap
    ELSE importNodeIdMap(comfyNodes, i + 1, firstId,
                         MapSet(nodeIdMap, comfyNodes[i].id, firstId + i - 1))

RECURSIVE importLinks(_, _, _, _, _)
\* for (const link of workflow.links)
importLinks(links, i, nodeIdMap, nextId, cs) ==
    IF i > Len(links) THEN cs
    ELSE IF MapHas(nodeIdMap, links[i][2]) /\ MapHas(nodeIdMap, links[i][4])
         THEN importLinks(links, i + 1, nodeIdMap, nextId + 1,
                  Append(cs, [id |-> nextId,
                              sourceNodeId |-> MapGet(nodeIdMap, links[i][2]),
                              sourcePortId |-> <<"output", links[i][3]>>,
                              targetNodeId |-> MapGet(nodeIdMap, links[i][4]),
                              targetPortId |-> <<"input", links[i][5]>>,
                              type |-> importPortType(links[i][6])]))
         ELSE importLinks(links, i + 1, nodeIdMap, nextId, cs)

\* firstNodeId, firstConnId: the uuid draws
importComfyUIWorkflow(workflow, firstNodeId, firstConnId) ==
    [nodes |-> [i \in DOMAIN workflow.nodes |->
                  importNode(workflow.nodes[i], firstNodeId + i - 1)],
     connections |-> importLinks(workflow.links, 1,
                                 importNodeIdMap(workflow.nodes, 1, firstNodeId, << >>),
                                 firstConnId, << >>)]

\* let comfyType
exportNodeType(type) ==
    IF MapHas(reverseNodeTypeMap, type) THEN MapGet(reverseNodeTypeMap, type)
    ELSE IF NameEntry(type).comfyPrefixed THEN NameEntry(type).recovered
    ELSE type

\* reverseTypeMap[type] || 'STRING'
exportPortType(type) ==
    IF MapHas(reverseTypeMap, type) THEN MapGet(reverseTypeMap, type) ELSE "STRING"

\* const comfyNode
exportNode(node, comfyId) ==
    [id |-> comfyId,
     type |-> exportNodeType(node.type),
     pos |-> <<node.position.x, node.position.y>>,
     size |-> IF "size" \in DOMAIN node THEN <<node.size.width, node.size.height>>
              ELSE <<200, 100>>,
     inputs |-> [i \in DOMAIN node.inputs |->
                   [name |-> node.inputs[i].name,
                    type |-> exportPortType(node.inputs[i].type),
                    link |-> NullLink]],
     outputs |-> [i \in DOMAIN node.outputs |->
                   [name |-> node.outputs[i].name,
                    type |-> exportPortType(node.outputs[i].type),
                    links |-> << >>,
                    slot_index |-> i - 1]],
     widgets_values |-> MapValues(node.data)]

RECURSIVE exportNodeIdMap(_, _, _)
\* nodeIdMap.set(node.id, comfyId) over nodes
exportNodeIdMap(ns, i, nodeIdMap) ==
    IF i > Len(ns) THEN nodeIdMap
    ELSE exportNodeIdMap(ns, i + 1, MapSet(nodeIdMap, ns[i].id, i))

\* ports.findIndex(p => p.id === portId)
findIndex(ports, portId) ==
    IF \E i \in DOMAIN ports : ports[i].id = portId
    THEN (CHOOSE i \in DOMAIN ports :
             /\ ports[i].id = portId
             /\ \A j \in 1..(i - 1) : ports[j].id # portId) - 1
    ELSE -1

\* comfySourceNode.outputs[sourceSlot].links.push(linkId); comfyTargetNode.inputs[targetSlot].link = linkId
exportBackFill(comfyNodes, linkId, sourceComfyId, sourceSlot, targetComfyId, targetSlot) ==
    LET withSource == [comfyNodes EXCEPT ![sourceComfyId].outputs[sourceSlot + 1].links =
                                             Append(@, linkId)]
    IN [withSource EXCEPT ![targetComfyId].inputs[targetSlot + 1].link = linkId]

RECURSIVE exportLinks(_, _, _, _, _, _, _)
\* for (const conn of connections): [nodes |-> comfyNodes, links |-> comfyLinks]
exportLinks(ns, cs, i, nodeIdMap, comfyNodes, comfyLinks, linkIdCounter) ==
    IF i > Len(cs) THEN [nodes |-> comfyNodes, links |-> comfyLinks]
    ELSE IF ~MapHas(nodeIdMap, cs[i].sourceNodeId) \/ ~MapHas(nodeIdMap, cs[i].targetNodeId)
         THEN exportLinks(ns, cs, i + 1, nodeIdMap, comfyNodes, comfyLinks, linkIdCounter)
         ELSE LET sourceNode == FindNode(ns, cs[i].sourceNodeId)
                  targetNode == FindNode(ns, cs[i].targetNodeId)
                  sourceSlot == findIndex(sourceNode.outputs, cs[i].sourcePortId)
                  targetSlot == findIndex(targetNode.inputs, cs[i].targetPortId)
                  sourceComfyId == MapGet(nodeIdMap, cs[i].sourceNodeId)
                  targetComfyId == MapGet(nodeIdMap, cs[i].targetNodeId)
              IN IF sourceSlot = -1 \/ targetSlot = -1
                 THEN exportLinks(ns, cs, i + 1, nodeIdMap, comfyNodes, comfyLinks,
                                  linkIdCounter)
                 ELSE exportLinks(ns, cs, i + 1, nodeIdMap,
                          exportBackFill(comfyNodes, linkIdCounter, sourceComfyId, sourceSlot,
                                         targetComfyId, targetSlot),
                          Append(comfyLinks,
                                 <<linkIdCounter, sourceComfyId, sourceSlot, targetComfyId,
                                   targetSlot,
                                   exportPortType(sourceNode.outputs[sourceSlot + 1].type)>>),
                          linkIdCounter + 1)

exportToComfyUIWorkflow(ns, cs) ==
    LET converted == exportLinks(ns, cs, 1, exportNodeIdMap(ns, 1, << >>),
                                 [i \in DOMAIN ns |-> exportNode(ns[i], i)], << >>, 1)
    IN [last_node_id |-> Len(ns),
        last_link_id |-> Len(converted.links),
        nodes |-> converted.nodes,
        links |-> converted.links]

(***************************************************************************)
(* Format translator of the plugin manager (plugins/PluginManager.ts), the *)
(* one the canvas uses to load and to export a file.  Internal ids are     *)
(* `node-<id>` = <<"node", id>> and `link-<id>` = <<"link", id>>.  An      *)
(* output's `links: null` is kept as the empty list: what reads the field  *)
(* (importComfyUIWorkflow) treats the two alike.                           *)
(***************************************************************************)
\* definition = this.customNodes.get(`comfy-${comfyNode.type}`)
HasCustomNode(type) == \E i \in DOMAIN customNodeDefinitions : customNodeDefinitions[i].type = type

customNode(type) ==
    customNodeDefinitions[CHOOSE i \in DOMAIN customNodeDefinitions :
                             customNodeDefinitions[i].type = type]

\* the definition made up for a node type no plugin registered
genericDefinition(comfyNode) ==
    [type |-> "comfy-" \o comfyNode.type,
     inputs |-> [i \in DOMAIN comfyNode.inputs |->
                   [name |-> comfyNode.inputs[i].name,
                    type |-> mapComfyType(comfyNode.inputs[i].type),
                    widget |-> FALSE]],
     outputs |-> [i \in DOMAIN comfyNode.outputs |->
                   [name |-> comfyNode.outputs[i].name,
                    type |-> mapComfyType(comfyNode.outputs[i].type)]],
     defaultData |-> << >>]

pluginDefinition(comfyNode) ==
    IF HasCustomNode("comfy-" \o comfyNode.type) THEN customNode("comfy-" \o comfyNode.type)
    ELSE genericDefinition(comfyNode)

RECURSIVE pluginWidgetData(_, _, _, _, _)
\* definition.inputs.forEach: node.data[input.name] = widgets_values[widgetIndex++]
pluginWidgetData(inputs, widgets_values, index, widgetIndex, data) ==
    IF index > Len(inputs) THEN data
    ELSE IF inputs[index].widget /\ widgetIndex < Len(widgets_values)
         THEN pluginWidgetData(inputs, widgets_values, index + 1, widgetIndex + 1,
                               MapSet(data, inputs[index].name, widgets_values[widgetIndex + 1]))
         ELSE pluginWidgetData(inputs, widgets_values, index + 1, widgetIndex, data)

pluginImportNode(comfyNode) ==
    LET definition == pluginDefinition(comfyNode)
    IN [id |-> <<"node", comfyNode.id>>,
        type |-> definition.type,
        position |-> [x |-> comfyNode.pos[1], y |-> comfyNode.pos[2]],
        data |-> pluginWidgetData(definition.inputs, comfyNode.widgets_values, 1, 0, << >>),
        inputs |-> [i \in DOMAIN definition.inputs |->
                      [id |-> <<"input", i - 1>>,
                       name |-> definition.inputs[i].name,
                       type |-> definition.inputs[i].type,
                       connected |-> FALSE,
                       widget |-> definition.inputs[i].widget]],
        outputs |-> [i \in DOMAIN definition.outputs |->
                      [id |-> <<"output", i - 1>>,
                       name |-> definition.outputs[i].name,
                       type |-> definition.outputs[i].type,
                       connected |-> FALSE]],
        size |-> [width |-> comfyNode.size[1], height |-> comfyNode.size[2]]]

RECURSIVE pluginNodeIdMap(_, _, _)
\* nodeIdMap.set(comfyNode.id, nodeId) over workflow.nodes
pluginNodeIdMap(comfyNodes, i, nodeIdMap) ==
    IF i > Len(comfyNodes) THEN nodeIdMap
    ELSE pluginNodeIdMap(comfyNodes, i + 1,
                         MapSet(nodeIdMap, comfyNodes[i].id, <<"node", comfyNodes[i].id>>))

RECURSIVE pluginImportLinks(_, _, _, _)
\* workflow.links.forEach
pluginImportLinks(links, i, nodeIdMap, cs) ==
    IF i > Len(links) THEN cs
    ELSE IF MapHas(nodeIdMap, links[i][2]) /\ MapHas(nodeIdMap, links[i][4])
         THEN pluginImportLinks(links, i + 1, nodeIdMap,
                  Append(cs, [id |-> <<"link", links[i][1]>>,
                              sourceNodeId |-> MapGet(nodeIdMap, links[i][2]),
                              sourcePortId |-> <<"output", links[i][3]>>,
                              targetNodeId |-> MapGet(nodeIdMap, links[i][4]),
                              targetPortId |-> <<"input", links[i][5]>>,
                              type |-> mapComfyType(links[i][6])]))
         ELSE pluginImportLinks(links, i + 1, nodeIdMap, cs)

importComfyWorkflow(workflow) ==
    [nodes |-> [i \in DOMAIN workflow.nodes |-> pluginImportNode(workflow.nodes[i])],
     connections |-> pluginImportLinks(workflow.links, 1,
                                       pluginNodeIdMap(workflow.nodes, 1, << >>), << >>)]

\* type.toUpperCase() for the type tags
upperCaseTags ==
    << <<"text", "TEXT">>, <<"image", "IMAGE">>, <<"any", "ANY">>, <<"int", "INT">>,
       <<"float", "FLOAT">>, <<"combo", "COMBO">>, <<"model", "MODEL">>, <<"clip", "CLIP">>,
       <<"latent", "LATENT">>, <<"boolean", "BOOLEAN">> >>

toUpperCase(type) == MapGet(upperCaseTags, type)

pluginExportNode(node, comfyId) ==
    [id |-> comfyId,
     type |-> NameEntry(node.type).withoutComfy,
     pos |-> <<node.position.x, node.position.y>>,
     size |-> IF "size" \in DOMAIN node THEN <<node.size.width, node.size.height>>
              ELSE <<220, 150>>,
     inputs |-> [i \in DOMAIN node.inputs |->
                   [name |-> node.inputs[i].name,
                    type |-> toUpperCase(node.inputs[i].type),
                    link |-> NullLink]],
     outputs |-> [i \in DOMAIN node.outputs |->
                   [name |-> node.outputs[i].name,
                    type |-> toUpperCase(node.outputs[i].type),
                    links |-> << >>,
                    slot_index |-> i - 1]],
     widgets_values |-> MapValues(node.data)]

\* comfyNodes.find(n => n.id === comfyId), whose ids are the positions
\* if (sourceNode?.outputs?.[sourceSlot]) ...push(linkId); if (targetNode?.inputs?.[targetSlot]) ...link = linkId
pluginBackFill(comfyNodes, linkId, sourceComfyId, sourceSlot, targetComfyId, targetSlot) ==
    LET withSource ==
            IF sourceSlot + 1 \in DOMAIN comfyNodes[sourceComfyId].outputs
            THEN [comfyNodes EXCEPT ![sourceComfyId].outputs[sourceSlot + 1].links =
                                        Append(@, linkId)]
            ELSE comfyNodes
    IN IF targetSlot + 1 \in DOMAIN withSource[targetComfyId].inputs
       THEN [withSource EXCEPT ![targetComfyId].inputs[targetSlot + 1].link = linkId]
       ELSE withSource

\* conn.type?.toUpperCase() || '*'
pluginLinkType(conn) == IF "type" \in DOMAIN conn THEN toUpperCase(conn.type) ELSE "*"

RECURSIVE pluginExportLinks(_, _, _, _, _, _)
\* connections.forEach: [nodes |-> comfyNodes, links |-> comfyLinks]
pluginExportLinks(cs, i, nodeIdMap, comfyNodes, comfyLinks, linkIdCounter) ==
    IF i > Len(cs) THEN [nodes |-> comfyNodes, links |-> comfyLinks]
    ELSE IF MapHas(nodeIdMap, cs[i].sourceNodeId) /\ MapHas(nodeIdMap, cs[i].targetNodeId)
         THEN LET sourceComfyId == MapGet(nodeIdMap, cs[i].sourceNodeId)
                  targetComfyId == MapGet(nodeIdMap, cs[i].targetNodeId)
                  \* parseInt(conn.sourcePortId.replace('output-', ''))
                  sourceSlot == cs[i].sourcePortId[2]
                  targetSlot == cs[i].targetPortId[2]
              IN pluginExportLinks(cs, i + 1, nodeIdMap,
                     pluginBackFill(comfyNodes, linkIdCounter, sourceComfyId, sourceSlot,
                                    targetComfyId, targetSlot),
                     Append(comfyLinks,
                            <<linkIdCounter, sourceComfyId, sourceSlot, targetComfyId,
                              targetSlot, pluginLinkType(cs[i])>>),
                     linkIdCounter + 1)
         ELSE pluginExportLinks(cs, i + 1, nodeIdMap, comfyNodes, comfyLinks, linkIdCounter)

exportToComfyWorkflow(ns, cs) ==
    LET converted == pluginExportLinks(cs, 1, exportNodeIdMap(ns, 1, << >>),
                                       [i \in DOMAIN ns |-> pluginExportNode(ns[i], i)],
                                       << >>, 1)
    IN [last_node_id |-> Len(ns),
        last_link_id |-> Len(converted.links),
        nodes |-> converted.nodes,
        links |-> converted.links]

(***************************************************************************)
(* Workflows handed to the translator: nodes of kinds the node-type        *)
(* dictionary names, as addNode (registered kinds) or an import or a       *)
(* loaded file (the other kinds) makes them, with the literal data the     *)
(* property panel or the file gave them.                                   *)
(***************************************************************************)
MaxTranslateSize == 4   \* nodes plus connections of a workflow handed to the translator

DictionaryKinds == {"image-upload", "image-output", "ksampler"}

\* the literal data a node of the kind may carry
DataChoices(type) ==
    IF HasNodeDefinition(type) THEN {getNodeDefinition(type).defaultData}
    ELSE {<< >>, << <<"param_0", "20">> >>, << <<"steps", "20">> >>}

InitTranslate ==
    /\ \E n \in 0..MaxTranslateSize : \E m \in 0..(MaxTranslateSize - n) :
         \E k \in [1..n -> DictionaryKinds], e \in [1..m -> LoadedIds(n) \X LoadedIds(n)] :
           \E d \in [1..n -> UNION {DataChoices(t) : t \in DictionaryKinds}] :
             /\ \A i \in 1..n : d[i] \in DataChoices(k[i])
             /\ nodes = [i \in 1..n |-> [graphNode(k[i], i) EXCEPT !.data = d[i]]]
             /\ connections = [i \in 1..m |-> graphConnection(i, e[i][1], e[i][2])]
             /\ nextNodeId = n + 1
             /\ nextConnId = m + 1
    /\ lastOp = [op |-> "loadWorkflow"]
    /\ idleExec
    /\ idleTrans
    /\ idleConnection
    /\ idlePlugins
    /\ idleRun

Export ==
    /\ pc = "idle"
    /\ pc' = "exported"
    /\ exported' = exportToComfyUIWorkflow(nodes, connections)
    /\ UNCHANGED <<storeVars, executionOrder, idx, nodeOutputs, events, calls,
                   imported, validation, runVars, gestureVars, pluginVars>>

Import ==
    /\ pc = "exported"
    /\ pc' = "imported"
    /\ imported' = importComfyUIWorkflow(exported, nextNodeId, nextConnId)
    /\ nextNodeId' = nextNodeId + Len(imported'.nodes)
    /\ nextConnId' = nextConnId + Len(imported'.connections)
    /\ UNCHANGED <<nodes, connections, lastOp, executionOrder, idx, nodeOutputs, events,
                   calls, exported, validation, runVars, gestureVars, pluginVars>>

NextTranslate == Export \/ Import

SpecTranslate == InitTranslate /\ [][NextTranslate]_vars

(***************************************************************************)
(* Claims about the graph store, under Spec.                               *)
(***************************************************************************)
ConnectionsInto(cs, nodeId, portId) ==
    {i \in DOMAIN cs : cs[i].targetNodeId = nodeId /\ cs[i].targetPortId = portId}

OnePerInput ==
    \A i, j \in DOMAIN connections :
        SameTarget(connections[i], connections[j]) => i = j

\* after addConnection(connection): exactly one connection ends at its target input,
\* it comes from the source just given, and unless the call repeated an existing
\* connection it is the new one (fresh id, appended last)
LastWriteWins ==
    lastOp'.op = "addConnection" =>
        LET connection == lastOp'.connection
            into == ConnectionsInto(connections', connection.targetNodeId, connection.targetPortId)
        IN /\ Cardinality(into) = 1
           /\ \A i \in into : SameEndpoints(connections'[i], connection)
           /\ ~lastOp'.exists =>
                 /\ into = {Len(connections')}
                 /\ \A j \in DOMAIN connections : connections[j].id # connections'[Len(connections')].id

\* C1: from the empty graph, after any sequence of addNode, removeNode, addConnection
\* and removeConnection, at most one connection terminates at any (target node, target
\* input port) pair; addConnection on an occupied input leaves exactly one connection
\* there, the newly added one (last write wins).
C1_OneConnectionPerInput == [](OnePerInput) /\ [][LastWriteWins]_vars

\* an addConnection that replaced the connection of another source into an occupied input
C1_Witness ==
    /\ lastOp.op = "addConnection"
    /\ lastOp.targetHasConnection
    /\ ~lastOp.exists
    /\ Len(connections) >= 1

Touches(c, nodeId) == c.sourceNodeId = nodeId \/ c.targetNodeId = nodeId

\* removeNode(id) removes the node with that id and exactly the connections touching it
RemoveNodeExact ==
    lastOp'.op = "removeNode" =>
        LET id == lastOp'.nodeId
        IN /\ \A n \in Range(nodes) : n.id # id => n \in Range(nodes')
           /\ \A n \in Range(nodes') : n \in Range(nodes) /\ n.id # id
           /\ \A c \in Range(connections) : ~Touches(c, id) => c \in Range(connections')
           /\ \A c \in Range(connections') : c \in Range(connections) /\ ~Touches(c, id)
           /\ Len(nodes') = Cardinality({i \in DOMAIN nodes : nodes[i].id # id})
           /\ Len(connections') = Cardinality({i \in DOMAIN connections : ~Touches(connections[i], id)})

RemoveUnknownNodeNoOp ==
    (lastOp'.op = "removeNode" /\ \A n \in Range(nodes) : n.id # lastOp'.nodeId)
        => nodes' = nodes /\ connections' = connections

RemoveUnreferencedUnknownNodeNoOp ==
    (/\ lastOp'.op = "removeNode"
     /\ \A n \in Range(nodes) : n.id # lastOp'.nodeId
     /\ \A c \in Range(connections) : ~Touches(c, lastOp'.nodeId))
        => nodes' = nodes /\ connections' = connections

IsSelfLoop(connection) == connection.sourceNodeId = connection.targetNodeId

\* C11: addConnection with sourceNodeId equal to targetNodeId (a self-loop) is a
\* silent no-op: the connection set and every port's connected flag are unchanged.
C11_SelfLoopRejected ==
    [][(lastOp'.op = "addConnection" /\ IsSelfLoop(lastOp'.connection))
          => (connections' = connections /\ nodes' = nodes)]_vars

NoTwoWithSameEndpoints ==
    \A i, j \in DOMAIN connections :
        SameEndpoints(connections[i], connections[j]) => i = j

\* C12: addConnection with the endpoints of an existing connection is a no-op: the
\* connection set (the existing connection's id included) and all nodes are
\* unchanged, so the graph never holds two connections with identical endpoints.
C12_DuplicateIsNoOp ==
    /\ [](NoTwoWithSameEndpoints)
    /\ [][(/\ lastOp'.op = "addConnection"
           /\ \E c \in Range(connections) : SameEndpoints(c, lastOp'.connection))
             => (connections' = connections /\ nodes' = nodes)]_vars

\* addConnection was called with the endpoints of a connection that is there
C12_Witness ==
    /\ lastOp.op = "addConnection"
    /\ lastOp.exists
    /\ \E c \in Range(connections) : SameEndpoints(c, lastOp.connection)

\* the connected flag of output portId of node nodeId in ns says whether a connection
\* of cs originates from it
OutputFlagExact(ns, cs, nodeId, portId) ==
    \A n \in Range(ns) : n.id = nodeId =>
        \A p \in Range(n.outputs) : p.id = portId =>
            (p.connected <=> \E c \in Range(cs) : c.sourceNodeId = nodeId /\ c.sourcePortId = portId)

\* C13: when addConnection replaces the connection into an occupied input, the
\* replaced connection's source output has its connected flag recomputed: afterwards
\* it is true if and only if a remaining connection originates from that output.
C13_ReplacedSourceRecomputed ==
    [][(lastOp'.op = "addConnection" /\ ~lastOp'.exists /\ lastOp'.targetHasConnection)
          => \A c \in Range(connections) :
                 SameTarget(c, lastOp'.connection) =>
                     OutputFlagExact(nodes', connections', c.sourceNodeId, c.sourcePortId)]_vars

\* removeConnection(id) of a connection that is there: that connection and no other
\* is removed, the target input is flagged unconnected and the source output is
\* flagged connected exactly if another connection still originates from it
RemoveConnectionExact ==
    (lastOp'.op = "removeConnection" /\ HasConnectionId(connections, lastOp'.connectionId)) =>
        LET c == FindConnection(connections, lastOp'.connectionId)
        IN /\ connections' = SelectSeq(connections, LAMBDA d : d.id # lastOp'.connectionId)
           /\ Len(connections') = Len(connections) - 1
           /\ \A n \in Range(nodes') : n.id = c.targetNodeId =>
                 \A q \in Range(n.inputs) : q.id = c.targetPortId => ~q.connected
           /\ \A n \in Range(nodes') : n.id = c.sourceNodeId =>
                 \A q \in Range(n.outputs) : q.id = c.sourcePortId =>
                    (q.connected <=> \E d \in Range(connections') :
                                        /\ d.sourceNodeId = c.sourceNodeId
                                        /\ d.sourcePortId = c.sourcePortId)

RemoveUnknownConnectionNoOp ==
    (lastOp'.op = "removeConnection" /\ ~HasConnectionId(connections, lastOp'.connectionId)) =>
        (connections' = connections /\ nodes' = nodes)

\* C14: removeConnection(id) removes exactly that connection and recomputes both
\* endpoints: the target input's connected flag becomes false, and the source
\* output's connected flag stays true if and only if another remaining connection
\* originates from the same output port; an unknown connection id changes nothing.
C14_RemoveConnectionRecomputes == [][RemoveConnectionExact /\ RemoveUnknownConnectionNoOp]_vars

\* C15: addNode with a kind that has no registered definition leaves the node set and
\* the connection set unchanged; with a registered kind it appends exactly one node
\* with a fresh id, ports input-<i> / output-<i> in definition order, all with
\* connected = false, and literal data equal to the definition's defaults, leaving
\* all existing nodes and connections unchanged.
C15_AddNode ==
    [][lastOp'.op = "addNode" =>
         /\ connections' = connections
         /\ ~HasNodeDefinition(lastOp'.type) => nodes' = nodes
         /\ HasNodeDefinition(lastOp'.type) =>
              LET definition == getNodeDefinition(lastOp'.type)
                  node == nodes'[Len(nodes')]
              IN /\ Len(nodes') = Len(nodes) + 1
                 /\ SubSeq(nodes', 1, Len(nodes)) = nodes
                 /\ node.type = lastOp'.type
                 /\ \A n \in Range(nodes) : n.id # node.id
                 /\ \A c \in Range(connections) : ~Touches(c, node.id)
                 /\ node.data = definition.defaultData
                 /\ Len(node.inputs) = Len(definition.inputs)
                 /\ Len(node.outputs) = Len(definition.outputs)
                 /\ \A i \in DOMAIN node.inputs :
                       /\ node.inputs[i].id = <<"input", i - 1>>
                       /\ node.inputs[i].name = definition.inputs[i].name
                       /\ node.inputs[i].type = definition.inputs[i].type
                       /\ ~node.inputs[i].connected
                 /\ \A i \in DOMAIN node.outputs :
                       /\ node.outputs[i].id = <<"output", i - 1>>
                       /\ node.outputs[i].name = definition.outputs[i].name
                       /\ node.outputs[i].type = definition.outputs[i].type
                       /\ ~node.outputs[i].connected]_vars

\* addNode of a registered kind appended a node behind a node that has a connection
C15_Witness ==
    /\ lastOp.op = "addNode"
    /\ HasNodeDefinition(lastOp.type)
    /\ Len(nodes) = 2
    /\ nodes[2].type = lastOp.type
    /\ Len(nodes[2].inputs) = 2
    /\ Len(connections) >= 1

\* C16: updateNodeData(nodeId, patch) shallow-merges patch into that node's literal
\* data (keys in patch take the patch value, all other keys keep their value) and
\* changes nothing else: other nodes, the node's ports and the connection set are
\* unchanged, and an unknown nodeId leaves the whole graph unchanged.
C16_UpdateNodeData ==
    [][lastOp'.op = "updateNodeData" =>
         /\ connections' = connections
         /\ Len(nodes') = Len(nodes)
         /\ \A i \in DOMAIN nodes :
              IF nodes[i].id # lastOp'.nodeId THEN nodes'[i] = nodes[i]
              ELSE /\ nodes'[i] = [nodes[i] EXCEPT !.data = nodes'[i].data]
                   /\ \A k \in Range(MapKeys(lastOp'.patch)) :
                         MapGet(nodes'[i].data, k) = MapGet(lastOp'.patch, k)
                   /\ \A k \in Range(MapKeys(nodes[i].data)) \ Range(MapKeys(lastOp'.patch)) :
                         MapGet(nodes'[i].data, k) = MapGet(nodes[i].data, k)
                   /\ Range(MapKeys(nodes'[i].data))
                        = Range(MapKeys(nodes[i].data)) \cup Range(MapKeys(lastOp'.patch))
                   /\ Len(nodes'[i].data) = Cardinality(Range(MapKeys(nodes'[i].data)))]_vars

\* updateNodeData added a key to a node that kept its other keys, next to a node whose
\* key it had overwritten before
C16_Witness ==
    /\ lastOp.op = "updateNodeData"
    /\ \E i \in DOMAIN nodes :
          /\ nodes[i].id = lastOp.nodeId
          /\ MapGet(nodes[i].data, "text") = "a"
          /\ MapHas(nodes[i].data, "model")
    /\ \E i \in DOMAIN nodes :
          /\ nodes[i].id # lastOp.nodeId
          /\ nodes[i].data = << <<"text", "a">> >>

(***************************************************************************)
(* Claims about the scheduler, under SpecExec.                             *)
(***************************************************************************)
Succ(cs, S) == {cs[i].targetNodeId : i \in {j \in DOMAIN cs : cs[j].sourceNodeId \in S}}

RECURSIVE Closure(_, _)
Closure(cs, S) == IF Succ(cs, S) \subseteq S THEN S ELSE Closure(cs, S \cup Succ(cs, S))

\* the ids that a path of one or more connections leads to from nodeId
ReachableFrom(cs, nodeId) == Closure(cs, Succ(cs, {nodeId}))

OnCycle(cs, nodeId) == nodeId \in ReachableFrom(cs, nodeId)

EndpointIds(cs) == {cs[i].sourceNodeId : i \in DOMAIN cs} \cup {cs[i].targetNodeId : i \in DOMAIN cs}

Acyclic(cs) == \A id \in EndpointIds(cs) : ~OnCycle(cs, id)

\* every connection joins two nodes of the node list
WellFormed(ns, cs) == \A id \in EndpointIds(cs) : HasNode(ns, id)

Positions_(order, id) == {i \in DOMAIN order : order[i] = id}

\* C3: for every acyclic graph, the order returned by getExecutionOrder never places
\* a node before a node that has a connection into one of its inputs: for every
\* connection s -> t, s appears at an earlier position than t.  (A graph: every
\* connection joins two nodes of the node list.)
C3_SourcesFirst ==
    (pc # "idle" /\ WellFormed(nodes, connections) /\ Acyclic(connections)) =>
        \A c \in Range(connections) :
            /\ Positions_(executionOrder, c.sourceNodeId) # {}
            /\ Positions_(executionOrder, c.targetNodeId) # {}
            /\ \A i \in Positions_(executionOrder, c.sourceNodeId),
                  j \in Positions_(executionOrder, c.targetNodeId) : i < j

\* an acyclic graph whose order differs from the order of the node list
C3_Witness ==
    /\ pc # "idle"
    /\ WellFormed(nodes, connections) /\ Acyclic(connections)
    /\ Len(connections) >= 2
    /\ Len(executionOrder) = Len(nodes)
    /\ executionOrder # NodeIdList(nodes)

CallsOf(nodeId) == {i \in DOMAIN calls : calls[i].nodeId = nodeId}
EventsOf(cb, nodeId) == {i \in DOMAIN events : events[i].cb = cb /\ events[i].nodeId = nodeId}

\* C4: for every graph with a directed cycle (a self-loop included), no node on a
\* cycle appears in the order returned by getExecutionOrder, so executeWorkflow never
\* dispatches such a node and never throws because of the cycle.
C4_CycleNodesExcluded ==
    /\ pc \in {"idle", "loop", "awaiting", "done"}
    /\ \A id \in EndpointIds(connections) :
          OnCycle(connections, id) =>
              /\ pc # "idle" => Positions_(executionOrder, id) = {}
              /\ CallsOf(id) = {}
              /\ \A i \in DOMAIN events : events[i].nodeId # id

\* a finished run of a graph with a cycle between nodes, part of which was executed
C4_Witness ==
    /\ pc = "done"
    /\ \E i \in DOMAIN nodes : OnCycle(connections, nodes[i].id)
    /\ Len(calls) >= 1

Dispatched(nodeId) == CallsOf(nodeId) # {}
Completed(nodeId) == EventsOf("onNodeComplete", nodeId) # {}
Failed(nodeId) == pc = "done" /\ Dispatched(nodeId) /\ ~Completed(nodeId)

\* C5: in one run of executeWorkflow, a node whose execution throws has its error
\* reported exactly once: onNodeError is invoked exactly one time for that node id,
\* and zero times for a node that succeeds.
C5_ErrorReportedOnce ==
    pc = "done" =>
        \A i \in DOMAIN nodes :
            /\ Failed(nodes[i].id) => Cardinality(EventsOf("onNodeError", nodes[i].id)) = 1
            /\ Completed(nodes[i].id) => EventsOf("onNodeError", nodes[i].id) = {}

\* the ids of the order that are nodes, up to position k
OrderNodes(k) == SelectSeq(SubSeq(executionOrder, 1, k), LAMBDA id : HasNode(nodes, id))

\* C6: a node failure does not halt the run: every node of the execution order that
\* comes after a failed node is still dispatched, and executeWorkflow resolves (never
\* rejects) whatever subset of nodes fails.
C6_FailureDoesNotHalt ==
    /\ pc \in {"idle", "loop", "awaiting", "done"}
    /\ pc = "awaiting" => idx \in DOMAIN executionOrder /\ HasNode(nodes, executionOrder[idx])
    /\ pc = "awaiting" => [i \in DOMAIN calls |-> calls[i].nodeId] = OrderNodes(idx)
    /\ pc = "loop" => [i \in DOMAIN calls |-> calls[i].nodeId] = OrderNodes(idx - 1)
    /\ pc = "done" => [i \in DOMAIN calls |-> calls[i].nodeId] = OrderNodes(Len(executionOrder))

\* a finished run in which a node failed and a later node of the order was dispatched
C6_Witness ==
    /\ pc = "done"
    /\ \E i, j \in DOMAIN calls :
          /\ i < j
          /\ EventsOf("onNodeError", calls[i].nodeId) # {}
          /\ Completed(calls[j].nodeId)

\* nodes a, b, c are the whole graph and the connections are a -> b and b -> c
IsChain(a, b, c) ==
    /\ Len(nodes) = 3
    /\ Len(connections) = 2
    /\ Cardinality({a, b, c}) = 3
    /\ {nodes[i].id : i \in DOMAIN nodes} = {a, b, c}
    /\ {<<connections[i].sourceNodeId, connections[i].targetNodeId>> : i \in DOMAIN connections}
          = {<<a, b>>, <<b, c>>}

\* the run is over and b is the only node whose execution rejected
OnlyRejects(b) ==
    /\ pc = "done"
    /\ \A i \in DOMAIN nodes :
          (EventsOf("onNodeError", nodes[i].id) # {}) <=> (nodes[i].id = b)

NodeEvents(nodeId) == SelectSeq(events, LAMBDA e : e.nodeId = nodeId)

\* C17: for every node dispatched in a run, the callback events for that node occur in
\* this order: progress(nodeId, 10) first, then any intermediate progress, and on
\* success progress(nodeId, 100) followed by exactly one complete(nodeId, outputs); on
\* failure no complete event is emitted for that node, and no event for a node is
\* emitted after its complete or error event.
C17_EventOrder ==
    \A id \in {calls[i].nodeId : i \in DOMAIN calls} :
        LET E == NodeEvents(id)
        IN /\ E # << >>
           /\ E[1] = onProgress(id, 10)
           /\ \A i \in DOMAIN E :
                 /\ E[i].cb \in {"onNodeComplete", "onNodeError"} => i = Len(E)
                 /\ E[i].cb = "onNodeComplete" => (i > 1 /\ E[i - 1] = onProgress(id, 100))

\* C20: the map returned by executeWorkflow has an entry for a node id if and only if
\* that node was dispatched and its execution completed without throwing; nodes
\* excluded from the order (on or behind a cycle) and nodes that failed have no entry.
C20_OutputsIffCompleted ==
    pc = "done" =>
        /\ \A id \in Range(MapKeys(nodeOutputs)) \cup {nodes[i].id : i \in DOMAIN nodes} :
              MapHas(nodeOutputs, id)
                 <=> (Dispatched(id) /\ EventsOf("onNodeError", id) = {})
        /\ \A id \in {nodes[i].id : i \in DOMAIN nodes} :
              (Positions_(executionOrder, id) = {} \/ OnCycle(connections, id))
                 => ~MapHas(nodeOutputs, id)
        /\ Len(nodeOutputs) = Cardinality(Range(MapKeys(nodeOutputs)))

\* a finished run that left a completed node, a failed node and a node behind a cycle
C20_Witness ==
    /\ pc = "done"
    /\ \E i, j, k \in DOMAIN nodes :
          /\ MapHas(nodeOutputs, nodes[i].id)
          /\ Dispatched(nodes[j].id) /\ ~MapHas(nodeOutputs, nodes[j].id)
          /\ ~Dispatched(nodes[k].id) /\ ~OnCycle(connections, nodes[k].id)
          /\ Positions_(executionOrder, nodes[k].id) = {}

(***************************************************************************)
(* Claims about input resolution, under SpecResolve.                       *)
(***************************************************************************)
\* the connections that terminate at input number index (0-based) of the node
ConnectionsIntoInput(cs, nodeId, index) == {i \in DOMAIN cs : ConnectsInto(cs[i], nodeId, index)}

\* this step calls executeNode, which resolves the inputs of the node
IsDispatchStep == Len(calls') = Len(calls) + 1

\* the node has been run in this run and failed: an error was reported, no output map stored
SourceFailed(nodeId) == EventsOf("onNodeError", nodeId) # {} /\ ~MapHas(nodeOutputs, nodeId)

\* the node has been run in this run and completed: its output map is stored
SourceCompleted(nodeId) == MapHas(nodeOutputs, nodeId)

\* C21: when a node runs and one of its inputs is connected to a source node that
\* failed (produced no output map), the value resolved for that input's name is
\* undefined, whatever the node's own literal data holds under that name.
C21_FailedSourceGivesUndefined ==
    [][IsDispatchStep =>
         LET call == calls'[Len(calls')]
             node == FindNode(nodes, call.nodeId)
         IN \A j \in DOMAIN node.inputs :
              \A i \in ConnectionsIntoInput(connections, node.id, j - 1) :
                 (/\ Cardinality(ConnectionsIntoInput(connections, node.id, j - 1)) = 1
                  /\ SourceFailed(connections[i].sourceNodeId))
                 => MapGet(call.inputs, node.inputs[j].name) = NoValue]_vars

\* the keys of the literal data that do not name an input of the node with a connection
LiteralKeys(node, cs) ==
    {node.data[i][1] : i \in DOMAIN node.data}
       \ {node.inputs[j].name : j \in {x \in DOMAIN node.inputs :
                                           ConnectionsIntoInput(cs, node.id, x - 1) # {}}}

\* the input has one connection, from output number k of a completed source whose output
\* map has a k-th key: the resolved value is the value of that key
PositionalValue(node, call, j) ==
    \A i \in ConnectionsIntoInput(connections, node.id, j - 1) :
       LET k == connections[i].sourcePortId[2]
           sourceOutputs == MapGet(nodeOutputs, connections[i].sourceNodeId)
       IN (/\ Cardinality(ConnectionsIntoInput(connections, node.id, j - 1)) = 1
           /\ SourceCompleted(connections[i].sourceNodeId)
           /\ k + 1 \in DOMAIN sourceOutputs)
          => /\ MapHas(call.inputs, node.inputs[j].name)
             /\ MapGet(call.inputs, node.inputs[j].name) = sourceOutputs[k + 1][2]

\* what has no connection keeps the literal data
LiteralKept(node, call) ==
    /\ \A key \in LiteralKeys(node, connections) :
          MapGet(call.inputs, key) = MapGet(node.data, key)
    /\ \A j \in DOMAIN node.inputs :
          (ConnectionsIntoInput(connections, node.id, j - 1) = {})
          => (MapHas(call.inputs, node.inputs[j].name) <=> MapHas(node.data, node.inputs[j].name))

\* C22: input resolution is positional: for an input connected to output port
\* output-<k> of a source node that completed, the value resolved under the input's
\* name is the value of the k-th key (in insertion order) of the source's output map,
\* overriding a literal value of that name; what has no connection keeps the node's
\* literal data unchanged.
C22_PositionalResolution ==
    [][IsDispatchStep =>
         LET call == calls'[Len(calls')]
             node == FindNode(nodes, call.nodeId)
         IN /\ \A j \in DOMAIN node.inputs : PositionalValue(node, call, j)
            /\ LiteralKept(node, call)]_vars

\* a node has run whose input held a literal and was fed a different value, from the
\* second key of the output map of a completed source
C22_Witness ==
    \E c \in DOMAIN calls : \E i \in DOMAIN connections :
       LET node == FindNode(nodes, calls[c].nodeId)
           j == connections[i].targetPortId[2] + 1
           k == connections[i].sourcePortId[2]
           sourceOutputs == MapGet(nodeOutputs, connections[i].sourceNodeId)
       IN /\ connections[i].targetNodeId = node.id
          /\ connections[i].sourceNodeId # node.id
          /\ j \in DOMAIN node.inputs
          /\ Cardinality(ConnectionsIntoInput(connections, node.id, j - 1)) = 1
          /\ MapHas(nodeOutputs, connections[i].sourceNodeId)
          /\ k = 1
          /\ k + 1 \in DOMAIN sourceOutputs
          /\ MapHas(node.data, node.inputs[j].name)
          /\ MapGet(node.data, node.inputs[j].name) # sourceOutputs[k + 1][2]
          /\ MapGet(calls[c].inputs, node.inputs[j].name) = sourceOutputs[k + 1][2]

(***************************************************************************)
(* Claims about the validator, under SpecValidate.                         *)
(***************************************************************************)
HasCycleAmongNodes(ns, cs) == \E i \in DOMAIN ns : OnCycle(cs, ns[i].id)

WarningsOfKind(kind) == SelectSeq(validation.warnings, LAMBDA w : w.kind = kind)

IsolatedNodes == SelectSeq(nodes, LAMBDA n :
                    \A c \in Range(connections) : c.sourceNodeId # n.id /\ c.targetNodeId # n.id)

\* C10: with more than one node, validateWorkflow emits exactly one 'unconnected node'
\* warning for each node that is neither source nor target of any connection and none
\* for the other nodes, and these warnings never make the result invalid; with zero
\* nodes it returns valid = true with a single informational warning, and with exactly
\* one node it emits no 'unconnected node' warning.
C10_UnconnectedNodeWarnings ==
    pc = "validated" =>
        /\ Len(nodes) > 1 =>
              /\ WarningsOfKind("unconnectedNode")
                    = [i \in DOMAIN IsolatedNodes |->
                         [kind |-> "unconnectedNode", type |-> IsolatedNodes[i].type]]
              /\ validation.valid <=> validation.errors = << >>
              /\ \A e \in Range(validation.errors) : e.kind = "cycle"
        /\ Len(nodes) = 0 =>
              validation = [valid |-> TRUE, errors |-> << >>, warnings |-> << [kind |-> "empty"] >>]
        /\ Len(nodes) = 1 => WarningsOfKind("unconnectedNode") = << >>

\* two connected nodes and an isolated third: one 'unconnected node' warning, no error
C10_Witness ==
    /\ pc = "validated"
    /\ Len(nodes) = 3
    /\ Len(IsolatedNodes) = 1
    /\ Len(WarningsOfKind("unconnectedNode")) = 1
    /\ validation.errors = << >>
    /\ validation.valid

(***************************************************************************)
(* Export of a loaded workflow by either translator.  The workflows have   *)
(* ports of different type tags, connections that name a node or a port    *)
(* that does not exist, and several connections into one input.            *)
(***************************************************************************)
ExportKinds == {"text-input", "llm", "image-output"}

InitExport ==
    /\ \E n \in 0..MaxTranslateSize : \E m \in 0..(MaxTranslateSize - n) :
         \E k \in [1..n -> ExportKinds], e \in [1..m -> LoadedIds(n) \X LoadedIds(n)] :
             /\ nodes = [i \in 1..n |-> graphNode(k[i], i)]
             /\ connections = [i \in 1..m |-> graphConnection(i, e[i][1], e[i][2])]
             /\ nextNodeId = n + 1
             /\ nextConnId = m + 1
    /\ lastOp = [op |-> "loadWorkflow"]
    /\ idleExec
    /\ idleTrans
    /\ idleConnection
    /\ idlePlugins
    /\ idleRun

\* Canvas.handleExportComfyUI
PluginExport ==
    /\ pc = "idle"
    /\ pc' = "pluginExported"
    /\ exported' = exportToComfyWorkflow(nodes, connections)
    /\ UNCHANGED <<storeVars, executionOrder, idx, nodeOutputs, events, calls,
                   imported, validation, runVars, gestureVars, pluginVars>>

NextExport == Export \/ PluginExport

SpecExport == InitExport /\ [][NextExport]_vars

(***************************************************************************)
(* Import of an external document read from a file.  lastOp holds the      *)
(* parsed document.  The link fields of the ports of a document agree with *)
(* its link records, as the external tool writes them; a link record may   *)
(* name a node the document does not have, and two nodes of a document may *)
(* carry the same id (a file edited or merged by hand).                    *)
(***************************************************************************)
MaxImportSize == 3   \* nodes plus link records of a document handed to import

\* the input and output records of an external node of the type, before the link fields
\* are filled in; `tag` is the type of the ports of a node that is not a plugin node
docPorts(type, tag) ==
    IF type = "tiler"
    THEN [inputs |-> << [name |-> "image", type |-> "IMAGE"], [name |-> "size", type |-> "INT"],
                        [name |-> "mode", type |-> "COMBO"] >>,
          outputs |-> << [name |-> "IMAGE", type |-> "IMAGE"] >>]
    ELSE [inputs |-> << [name |-> "in", type |-> tag] >>,
          outputs |-> << [name |-> "out", type |-> tag] >>]

\* the link of the input: the id of the last link record that ends at it, or null
docInputLink(links, id, slot) ==
    LET into == {i \in DOMAIN links : links[i][4] = id /\ links[i][5] = slot}
    IN IF into = {} THEN NullLink
       ELSE links[CHOOSE i \in into : \A j \in into : j <= i][1]

\* the links of the output: the ids of the link records that start at it
docOutputLinks(links, id, slot) ==
    LET from == SelectSeq(links, LAMBDA l : l[2] = id /\ l[3] = slot)
    IN [i \in DOMAIN from |-> from[i][1]]

docNode(id, type, tag, widgets_values, links) ==
    [id |-> id,
     type |-> type,
     pos |-> <<0, 0>>,
     size |-> <<200, 100>>,
     inputs |-> [i \in DOMAIN docPorts(type, tag).inputs |->
                   [name |-> docPorts(type, tag).inputs[i].name,
                    type |-> docPorts(type, tag).inputs[i].type,
                    link |-> docInputLink(links, id, i - 1)]],
     outputs |-> [i \in DOMAIN docPorts(type, tag).outputs |->
                   [name |-> docPorts(type, tag).outputs[i].name,
                    type |-> docPorts(type, tag).outputs[i].type,
                    links |-> docOutputLinks(links, id, i - 1),
                    slot_index |-> i - 1]],
     widgets_values |-> widgets_values]

\* the external node types of the documents, and the widget values a node may carry
DocTypes == {"SaveImage", "tiler"}
DocWidgetValues == {<< >>, <<"7">>, <<"7", "8">>}
DocSlots == {0, 1}

idleStore == /\ nodes = << >> /\ connections = << >> /\ nextNodeId = 1 /\ nextConnId = 1

InitImport ==
    /\ \E n \in 0..MaxImportSize : \E m \in 0..(MaxImportSize - n) :
         \E t \in [1..n -> DocTypes], w \in [1..n -> DocWidgetValues],
            dup \in [1..n -> BOOLEAN],
            e \in [1..m -> (1..(n + 1)) \X (1..(n + 1)) \X DocSlots] :
           LET links == [i \in 1..m |-> <<i, e[i][1], 0, e[i][2], e[i][3], "IMAGE">>]
               ids == [i \in 1..n |-> IF dup[i] THEN 1 ELSE i]
           IN /\ \A i \in 1..n : (i = 1) => ~dup[i]
              /\ lastOp = [op |-> "readFile",
                           workflow |-> [last_node_id |-> n, last_link_id |-> m,
                                         nodes |-> [i \in 1..n |->
                                                      docNode(ids[i], t[i], "IMAGE", w[i], links)],
                                         links |-> links]]
    /\ idleStore
    /\ idleExec
    /\ idleTrans
    /\ idleConnection
    /\ idlePlugins
    /\ idleRun

\* the external names and type tags of the dictionaries, and some outside them
DictionaryNames == {comfyNodeTypeMap[i][1] : i \in DOMAIN comfyNodeTypeMap} \cup {"LoraLoader", "tiler"}
DictionaryTags == {comfyTypeMap[i][1] : i \in DOMAIN comfyTypeMap} \cup {"*"}

\* documents of one node, of every type name and with ports of every type tag
InitDictionary ==
    /\ \E type \in DictionaryNames, tag \in DictionaryTags :
          lastOp = [op |-> "readFile",
                    workflow |-> [last_node_id |-> 1, last_link_id |-> 0,
                                  nodes |-> << docNode(1, type, tag, << >>, << >>) >>,
                                  links |-> << >>]]
    /\ idleStore
    /\ idleExec
    /\ idleTrans
    /\ idleConnection
    /\ idlePlugins
    /\ idleRun

\* importWorkflow of a document in the external format
ImportFile ==
    /\ pc = "idle"
    /\ lastOp.op = "readFile"
    /\ pc' = "fileImported"
    /\ imported' = importComfyUIWorkflow(lastOp.workflow, nextNodeId, nextConnId)
    /\ nextNodeId' = nextNodeId + Len(imported'.nodes)
    /\ nextConnId' = nextConnId + Len(imported'.connections)
    /\ UNCHANGED <<nodes, connections, lastOp, executionOrder, idx, nodeOutputs, events,
                   calls, exported, validation, runVars, gestureVars, pluginVars>>

\* Canvas.handleLoad of a document in the external format: import, then loadWorkflow
PluginImportFile ==
    /\ pc = "idle"
    /\ lastOp.op = "readFile"
    /\ pc' = "fileLoaded"
    /\ imported' = importComfyWorkflow(lastOp.workflow)
    /\ nodes' = imported'.nodes
    /\ connections' = imported'.connections
    /\ UNCHANGED <<nextNodeId, nextConnId, lastOp, executionOrder, idx, nodeOutputs, events,
                   calls, exported, validation, runs, isRunning, storeOutputs,
                   gestureVars, pluginVars>>
    /\ executionStates' = << >>

\* the imported workflow is exported again
ExportImported ==
    /\ pc = "fileImported"
    /\ pc' = "reexported"
    /\ exported' = exportToComfyUIWorkflow(imported.nodes, imported.connections)
    /\ UNCHANGED <<storeVars, executionOrder, idx, nodeOutputs, events, calls,
                   imported, validation, runVars, gestureVars, pluginVars>>

NextImport == ImportFile \/ PluginImportFile \/ ExportImported

SpecImport == InitImport /\ [][NextImport]_vars

SpecDictionary == InitDictionary /\ [][NextImport]_vars

(***************************************************************************)
(* Claims about the translator, under SpecTranslate.                       *)
(***************************************************************************)
NodeIndex(ns, nodeId) == CHOOSE i \in DOMAIN ns : ns[i].id = nodeId

\* the connections as <<source position, output index, target position, input index>>
Topology(ns, cs) ==
    [i \in DOMAIN cs |->
       <<NodeIndex(ns, cs[i].sourceNodeId),
         findIndex(FindNode(ns, cs[i].sourceNodeId).outputs, cs[i].sourcePortId),
         NodeIndex(ns, cs[i].targetNodeId),
         findIndex(FindNode(ns, cs[i].targetNodeId).inputs, cs[i].targetPortId)>>]

\* every connection joins an output of a node of the list to an input of one
PortsResolve(ns, cs) ==
    /\ WellFormed(ns, cs)
    /\ \A i \in DOMAIN cs :
         /\ findIndex(FindNode(ns, cs[i].sourceNodeId).outputs, cs[i].sourcePortId) # -1
         /\ findIndex(FindNode(ns, cs[i].targetNodeId).inputs, cs[i].targetPortId) # -1

SameKinds == [i \in DOMAIN imported.nodes |-> imported.nodes[i].type]
                = [i \in DOMAIN nodes |-> nodes[i].type]

SameTopology == Topology(imported.nodes, imported.connections) = Topology(nodes, connections)

SameData ==
    /\ Len(imported.nodes) = Len(nodes)
    /\ \A i \in DOMAIN nodes :
         /\ MapKeys(imported.nodes[i].data) = MapKeys(nodes[i].data)
         /\ MapValues(imported.nodes[i].data) = MapValues(nodes[i].data)

\* C8: for any graph G whose node kinds all have an entry in the node-type dictionary
\* (and whose connections join ports of its nodes), importComfyUIWorkflow(
\* exportToComfyUIWorkflow(G)) has the same node kinds in the same order, the same
\* connection topology and the same literal-data map for every node as G.
C8_RoundTrip ==
    (pc = "imported" /\ PortsResolve(nodes, connections)) =>
        /\ SameKinds
        /\ SameTopology
        /\ SameData

\* what of C8 the translator does keep: the kinds and the topology
C8_KindsAndTopology ==
    (pc = "imported" /\ PortsResolve(nodes, connections)) => (SameKinds /\ SameTopology)

(***************************************************************************)
(* Claims about runAll, under SpecRun.                                     *)
(***************************************************************************)
\* the runs that have an executor call pending
InFlight == {r \in 1..MaxRuns : runs[r].pc = "awaiting"}

\* C18: no two node invocations are ever in flight concurrently: at every moment at
\* most one node's executor call is pending, under any interleaving of runAll requests
\* and executor completions (a second runAll issued on the store while a first run is
\* awaiting an executor call included).
C18_OneInvocationInFlight == Cardinality(InFlight) <= 1

Started == {r \in 1..MaxRuns : runs[r].pc \notin {"idle", "returned"}}

IsLatestRun(r) == r \in Started /\ \A q \in Started : q <= r

\* every entry of the store's nodeOutputs and executionStates was written by run r
OnlyEntriesOf(r) ==
    /\ \A i \in DOMAIN storeOutputs : storeOutputs[i][2].run = r
    /\ \A i \in DOMAIN executionStates : executionStates[i].run = r

\* C19: a new run is a restart: when runAll starts, all execution states and node
\* outputs of earlier runs are cleared before any node of the new run is dispatched,
\* so after the run finishes the store's nodeOutputs and executionStates contain only
\* entries produced by that run.
C19_RunIsRestart ==
    /\ [](\A r \in 1..MaxRuns : (IsLatestRun(r) /\ runs[r].pc = "done") => OnlyEntriesOf(r))
    /\ [][\A r \in 1..MaxRuns :
             (runs[r].pc = "idle" /\ runs'[r].pc = "loop")
                => (storeOutputs' = << >> /\ executionStates' = << >>)]_vars

\* the graph a started run works on: what it read from the store when it started
RunGraphKept ==
    \A r \in 1..MaxRuns :
        (runs[r].pc \notin {"idle", "returned"})
        => /\ runs'[r].nodes = runs[r].nodes
           /\ runs'[r].connections = runs[r].connections

\* C30: execution never mutates the graph: no step of runAll / executeWorkflow, from
\* its start to its end, changes the node list (ids, kinds, positions, literal data,
\* ports and connected flags) or the connection list, in the store or in the run; a
\* run changes only isRunning, executionStates and nodeOutputs.
C30_RunLeavesGraph ==
    [][/\ UNCHANGED <<nodes, connections, nextNodeId, nextConnId>>
       /\ RunGraphKept]_vars

\* a run is over in which a node completed and wrote its outputs to the store
C30_Witness ==
    \E r \in 1..MaxRuns :
        /\ runs[r].pc = "done"
        /\ \E i \in DOMAIN storeOutputs : storeOutputs[i][2].run = r
        /\ Len(connections) > 0

(***************************************************************************)
(* Claims about export, under SpecExport.                                  *)
(***************************************************************************)
IsExported == pc \in {"exported", "pluginExported"}

\* a connection between two ports is permitted when their tags are equal or either is "any"
Compatible(a, b) == a = b \/ a = "any" \/ b = "any"

\* the link record joins an output and an input that the exported nodes have
LinkPortsExist(doc, link) ==
    /\ link[2] \in DOMAIN doc.nodes
    /\ link[4] \in DOMAIN doc.nodes
    /\ link[3] + 1 \in DOMAIN doc.nodes[link[2]].outputs
    /\ link[5] + 1 \in DOMAIN doc.nodes[link[4]].inputs

\* C23: every link record emitted by export joins an output port and an input port
\* whose type tags are equal or of which one is "any": a connection between
\* incompatible ports is never exported.
C23_ExportedLinksCompatible ==
    IsExported =>
        \A i \in DOMAIN exported.links :
            LET link == exported.links[i]
            IN LinkPortsExist(exported, link)
               => Compatible(nodes[link[2]].outputs[link[3] + 1].type,
                             nodes[link[4]].inputs[link[5] + 1].type)

\* every link record is listed on the output and on the input it names
LinksAreListed(doc) ==
    \A i \in DOMAIN doc.links :
        LET link == doc.links[i]
        IN /\ LinkPortsExist(doc, link)
           /\ link[1] \in Range(doc.nodes[link[2]].outputs[link[3] + 1].links)
           /\ doc.nodes[link[4]].inputs[link[5] + 1].link = link[1]

\* every link id listed on an output or an input is the id of a link record with
\* those endpoints
ListedAreLinks(doc) ==
    \A n \in DOMAIN doc.nodes :
        /\ \A o \in DOMAIN doc.nodes[n].outputs :
              \A id \in Range(doc.nodes[n].outputs[o].links) :
                 \E i \in DOMAIN doc.links :
                    /\ doc.links[i][1] = id
                    /\ doc.links[i][2] = doc.nodes[n].id
                    /\ doc.links[i][3] = o - 1
        /\ \A p \in DOMAIN doc.nodes[n].inputs :
              (doc.nodes[n].inputs[p].link # NullLink)
              => \E i \in DOMAIN doc.links :
                    /\ doc.links[i][1] = doc.nodes[n].inputs[p].link
                    /\ doc.links[i][4] = doc.nodes[n].id
                    /\ doc.links[i][5] = p - 1

\* C25: every document produced by exportToComfyUIWorkflow or by
\* PluginManager.exportToComfyWorkflow is mutually consistent: for every link record
\* [id, src, srcSlot, dst, dstSlot, type] node src exists with id in
\* outputs[srcSlot].links and node dst exists with inputs[dstSlot].link = id, and every
\* link id listed on an output or an input is the id of a link record with those
\* endpoints.
C25_ExportConsistent ==
    IsExported => (LinksAreListed(exported) /\ ListedAreLinks(exported))

\* both nodes of the connection are in the node list
NodesResolve(c) == HasNode(nodes, c.sourceNodeId) /\ HasNode(nodes, c.targetNodeId)

\* and the ports it names are in the port lists of these nodes
EndpointsResolve(c) ==
    /\ NodesResolve(c)
    /\ findIndex(FindNode(nodes, c.sourceNodeId).outputs, c.sourcePortId) # -1
    /\ findIndex(FindNode(nodes, c.targetNodeId).inputs, c.targetPortId) # -1

\* the link records are those of the connections cs, numbered from 1 in their order,
\* with the ordinal indexes of the ports as slot numbers
LinksOf(doc, cs) ==
    /\ Len(doc.links) = Len(cs)
    /\ doc.last_link_id = Len(cs)
    /\ \A i \in DOMAIN cs :
          /\ doc.links[i][1] = i
          /\ doc.links[i][2] = NodeIndex(nodes, cs[i].sourceNodeId)
          /\ doc.links[i][3] = findIndex(FindNode(nodes, cs[i].sourceNodeId).outputs,
                                         cs[i].sourcePortId)
          /\ doc.links[i][4] = NodeIndex(nodes, cs[i].targetNodeId)
          /\ doc.links[i][5] = findIndex(FindNode(nodes, cs[i].targetNodeId).inputs,
                                         cs[i].targetPortId)

NodesNumbered(doc) ==
    /\ Len(doc.nodes) = Len(nodes)
    /\ doc.last_node_id = Len(nodes)
    /\ \A i \in DOMAIN doc.nodes : doc.nodes[i].id = i

\* C26: export numbers the nodes 1..n in the order of the node list (so with distinct
\* ids) and sets last_node_id = n; it emits one link record for every connection whose
\* endpoints resolve, numbered 1..m in the order of the connections with
\* last_link_id = m, and the slot numbers of a record are the ordinal indexes of the
\* ports it names in the output / input list of their node.  (Endpoints that resolve
\* are read either as nodes that exist or as nodes and ports that exist.)
C26_ExportNumbering ==
    IsExported =>
        /\ NodesNumbered(exported)
        /\ \/ LinksOf(exported, SelectSeq(connections, NodesResolve))
           \/ LinksOf(exported, SelectSeq(connections, EndpointsResolve))

(***************************************************************************)
(* Claims about import, under SpecImport and SpecDictionary.               *)
(***************************************************************************)
\* the document that was read
Document == lastOp.workflow

IsImported == pc \in {"fileImported", "fileLoaded"}

\* C24: the dictionaries of the translator are exact inverses: for every external
\* name X of the node-type dictionary and every external tag of the value-type
\* dictionary, mapping it to its internal name on import and mapping that name back
\* on export gives X again.
C24_DictionariesInverse ==
    (pc = "reexported") =>
        \A i \in DOMAIN Document.nodes :
            /\ MapHas(comfyNodeTypeMap, Document.nodes[i].type)
                  => exported.nodes[i].type = Document.nodes[i].type
            /\ \A p \in DOMAIN Document.nodes[i].inputs :
                  MapHas(comfyTypeMap, Document.nodes[i].inputs[p].type)
                  => exported.nodes[i].inputs[p].type = Document.nodes[i].inputs[p].type
            /\ \A p \in DOMAIN Document.nodes[i].outputs :
                  MapHas(comfyTypeMap, Document.nodes[i].outputs[p].type)
                  => exported.nodes[i].outputs[p].type = Document.nodes[i].outputs[p].type

\* the external ids of the nodes of the document
DocumentIds == {Document.nodes[i].id : i \in DOMAIN Document.nodes}

\* the link records whose source and target are nodes of the document
PresentLinks == SelectSeq(Document.links, LAMBDA l : l[2] \in DocumentIds /\ l[4] \in DocumentIds)

\* the internal ids given to the nodes of the document that carry the external id
InternalIdsOf(id) ==
    {imported.nodes[i].id : i \in {j \in DOMAIN Document.nodes : Document.nodes[j].id = id}}

ImportedIds == {imported.nodes[i].id : i \in DOMAIN imported.nodes}

\* C27: import drops exactly the links whose source or target external node id is
\* not among the imported nodes: every imported connection joins internal ids of
\* imported nodes, every external link with both endpoints present yields exactly
\* one connection (the links in their order, with their slots), and the imported
\* nodes have pairwise distinct internal ids.
C27_ImportDropsDanglingLinks ==
    IsImported =>
        /\ Len(imported.nodes) = Len(Document.nodes)
        /\ \A i \in DOMAIN imported.connections :
              /\ imported.connections[i].sourceNodeId \in ImportedIds
              /\ imported.connections[i].targetNodeId \in ImportedIds
        /\ Len(imported.connections) = Len(PresentLinks)
        /\ \A i \in DOMAIN PresentLinks :
              /\ imported.connections[i].sourceNodeId \in InternalIdsOf(PresentLinks[i][2])
              /\ imported.connections[i].sourcePortId = <<"output", PresentLinks[i][3]>>
              /\ imported.connections[i].targetNodeId \in InternalIdsOf(PresentLinks[i][4])
              /\ imported.connections[i].targetPortId = <<"input", PresentLinks[i][5]>>
        /\ \A i, j \in DOMAIN imported.nodes :
              (i # j) => imported.nodes[i].id # imported.nodes[j].id

\* the inputs of the definition that carry a widget, in port order
WidgetInputs(definition) == SelectSeq(definition.inputs, LAMBDA input : input.widget)

\* C28: on import the widget-values array is distributed positionally over the
\* widget-bearing inputs only, in port order: the j-th widget-bearing input of the
\* definition receives widgets_values[j] (for j below the length of the array),
\* however many inputs without a widget precede it.
C28_WidgetValuesPositional ==
    IsImported =>
        \A i \in DOMAIN imported.nodes :
            HasNodeDefinition(imported.nodes[i].type) =>
                LET widgetInputs == WidgetInputs(getNodeDefinition(imported.nodes[i].type))
                    values == Document.nodes[i].widgets_values
                IN \A j \in DOMAIN widgetInputs :
                      (j <= Len(values)) =>
                          /\ MapHas(imported.nodes[i].data, widgetInputs[j].name)
                          /\ MapGet(imported.nodes[i].data, widgetInputs[j].name) = values[j]

\* C29: on import a port is marked connected when the document has a link on it: an
\* input whose external record has a non-null link and an output whose external
\* record has a non-empty links list have connected = true, in importComfyUIWorkflow
\* and in PluginManager.importComfyWorkflow.
C29_LinkedPortsConnected ==
    IsImported =>
        \A i \in DOMAIN Document.nodes :
            /\ \A p \in DOMAIN Document.nodes[i].inputs :
                  (Document.nodes[i].inputs[p].link # NullLink)
                  => /\ p \in DOMAIN imported.nodes[i].inputs
                     /\ imported.nodes[i].inputs[p].connected
            /\ \A p \in DOMAIN Document.nodes[i].outputs :
                  (Len(Document.nodes[i].outputs[p].links) > 0)
                  => /\ p \in DOMAIN imported.nodes[i].outputs
                     /\ imported.nodes[i].outputs[p].connected

(***************************************************************************)
(* Claims about the terminal states of runs, under FairSpecRun: SpecRun    *)
(* with the continuations of a run always taken up by the event loop and   *)
(* every pending executor call answered (resolved or rejected).            *)
(***************************************************************************)
FairSpecRun ==
    /\ SpecRun
    /\ WF_vars(RunDispatch)
    /\ WF_vars(RunFinish)
    /\ WF_vars(RunServiceResolves \/ RunServiceRejects)

\* the status executionStates holds for the node, "none" without an entry
StatusOf(states, nodeId) ==
    IF \E i \in DOMAIN states : states[i].nodeId = nodeId
    THEN states[CHOOSE i \in DOMAIN states : states[i].nodeId = nodeId].status
    ELSE "none"

\* run r is in progress: it has nodes to dispatch or an executor call pending
InProgress(r) == runs[r].pc \in {"loop", "awaiting"}

\* this step is the set({ isRunning: false }) that ends run r
EndsRun(r) == runs[r].pc = "loop" /\ runs'[r].pc = "done"

\* every started run ends
RunsEnd == \A r \in 1..MaxRuns : InProgress(r) ~> (runs[r].pc = "done")

\* when a run ends every node of its order is completed or failed
EndedRunIsTerminal ==
    [][\A r \in 1..MaxRuns :
          EndsRun(r) =>
             /\ isRunning' = FALSE
             /\ \A i \in DOMAIN runs[r].executionOrder :
                   StatusOf(executionStates', runs[r].executionOrder[i])
                       \in {"completed", "error"}]_vars

\* C31: run and node state machines reach their terminal states: when every executor
\* call eventually resolves or rejects, every runAll on a non-empty graph eventually
\* sets isRunning back to false, and at that point every node of the execution order
\* has execution status completed or error (none is left in running).
C31_RunsReachTerminalStates == RunsEnd /\ EndedRunIsTerminal

\* this step dispatches a node of run r: its executeNode is called
DispatchesNode(r) ==
    /\ runs[r].pc = "loop"
    /\ runs[r].idx <= Len(runs[r].executionOrder)
    /\ runs'[r] # runs[r]

\* a run requested after run r has started
Superseded(r) == \E q \in (r + 1)..MaxRuns : runs[q].pc \notin {"idle", "returned"}

\* the entries of executionStates written by run r
StatesOf(states, r) == {i \in DOMAIN states : states[i].run = r}

\* C32: when a new run is requested while a prior run is still in progress, the prior
\* run completes only its already-dispatched node call and dispatches none of its
\* remaining nodes, so no progress, completion or error state of the prior run's
\* remaining nodes is written after the new run has started.
C32_PriorRunStopsDispatching ==
    [][\A r \in 1..MaxRuns : ~(Superseded(r) /\ DispatchesNode(r))]_vars

\* C38: isRunning is true exactly while some run is in progress: under any
\* interleaving of runAll calls on the store and executor completions, isRunning is
\* never false while a run still has nodes to dispatch or an executor call pending,
\* and it is false once no run is in progress.
C38_IsRunningWhileInProgress == isRunning <=> (\E r \in 1..MaxRuns : InProgress(r))

(***************************************************************************)
(* Claims about the graph the canvas builds, under SpecWired (addNode,     *)
(* removeNode, addConnection on ports of the graph, removeConnection) and  *)
(* SpecCanvas (the same and the drag gesture).                             *)
(***************************************************************************)
\* some connection terminates at the input port
TerminatesAt(c, node, port) == c.targetNodeId = node.id /\ c.targetPortId = port.id

\* some connection originates from the output port
OriginatesFrom(c, node, port) == c.sourceNodeId = node.id /\ c.sourcePortId = port.id

\* C33: the connected cache is exact: starting from an empty graph, after any sequence
\* of addNode, addConnection (between existing nodes and ports), removeConnection and
\* removeNode, an input port has connected = true if and only if some connection
\* terminates at it, and an output port has connected = true if and only if some
\* connection originates from it.
C33_ConnectedCacheExact ==
    \A i \in DOMAIN nodes :
        /\ \A p \in DOMAIN nodes[i].inputs :
              nodes[i].inputs[p].connected
                 <=> \E k \in DOMAIN connections :
                        TerminatesAt(connections[k], nodes[i], nodes[i].inputs[p])
        /\ \A p \in DOMAIN nodes[i].outputs :
              nodes[i].outputs[p].connected
                 <=> \E k \in DOMAIN connections :
                        OriginatesFrom(connections[k], nodes[i], nodes[i].outputs[p])

\* the port id names a port of the list
HasPort(ports, portId) == \E p \in DOMAIN ports : ports[p].id = portId

\* C34: referential integrity: starting from an empty graph, after any sequence of
\* addNode, removeNode, addConnection, endConnection and removeConnection, every
\* connection's sourceNodeId and targetNodeId are ids of nodes currently in the graph
\* and its port ids name ports that exist on those nodes.
C34_ReferentialIntegrity ==
    \A k \in DOMAIN connections :
        /\ HasNode(nodes, connections[k].sourceNodeId)
        /\ HasNode(nodes, connections[k].targetNodeId)
        /\ HasPort(FindNode(nodes, connections[k].sourceNodeId).outputs,
                   connections[k].sourcePortId)
        /\ HasPort(FindNode(nodes, connections[k].targetNodeId).inputs,
                   connections[k].targetPortId)

(***************************************************************************)
(* Claims about the order of loaded workflows, under SpecExec (the         *)
(* connections of a loaded workflow may name ids that no node has), and    *)
(* about the agreement of validator and scheduler, under SpecValidate.     *)
(***************************************************************************)
\* C35: for any node list and connection list (including connections whose source or
\* target id is not in the node list, as can be loaded from a file), the order
\* returned by getExecutionOrder contains only ids of nodes in the node list and
\* contains each id at most once.
C35_OrderHoldsNodesOnce ==
    (pc # "idle") =>
        /\ \A i \in DOMAIN executionOrder : HasNode(nodes, executionOrder[i])
        /\ \A i, j \in DOMAIN executionOrder :
              (i # j) => executionOrder[i] # executionOrder[j]

\* the node lies on a cycle or a path leads to it from a node on a cycle
OnOrBehindCycle(cs, nodeId) ==
    \/ OnCycle(cs, nodeId)
    \/ \E id \in EndpointIds(cs) : OnCycle(cs, id) /\ nodeId \in ReachableFrom(cs, id)

\* C36: for every acyclic graph whose connections all reference existing nodes
\* (multiple connections between the same pair of nodes allowed), getExecutionOrder
\* returns every node id exactly once; in general (connections referencing existing
\* nodes) a node is omitted exactly when it lies on a cycle or is reachable from a
\* cycle.
C36_OrderIsComplete ==
    (pc # "idle" /\ WellFormed(nodes, connections)) =>
        /\ Acyclic(connections) =>
              \A i \in DOMAIN nodes :
                  Cardinality(Positions_(executionOrder, nodes[i].id)) = 1
        /\ \A i \in DOMAIN nodes :
              (Positions_(executionOrder, nodes[i].id) = {})
                 <=> OnOrBehindCycle(connections, nodes[i].id)
        /\ \A i \in DOMAIN nodes :
              Cardinality(Positions_(executionOrder, nodes[i].id)) <= 1

\* an acyclic graph with two connections between the same pair of nodes and a third
\* node, all three scheduled
C36_Witness ==
    /\ pc # "idle"
    /\ WellFormed(nodes, connections) /\ Acyclic(connections)
    /\ Len(nodes) = 3
    /\ \E i, j \in DOMAIN connections :
          /\ i # j
          /\ connections[i].sourceNodeId = connections[j].sourceNodeId
          /\ connections[i].targetNodeId = connections[j].targetNodeId
    /\ Len(executionOrder) = 3

\* the nodes of the list that the order of the workflow leaves out
OmittedNodes(ns, cs) ==
    {i \in DOMAIN ns : Positions_(getExecutionOrder(ns, cs), ns[i].id) = {}}

\* C37: the validator and the scheduler agree on cycles: for every graph whose
\* connections all reference existing nodes, validateWorkflow reports a cycle error if
\* and only if getExecutionOrder omits at least one node, so a workflow that validates
\* as valid is always scheduled in full.
C37_ValidatorAgreesWithScheduler ==
    (pc = "validated" /\ WellFormed(nodes, connections)) =>
        /\ ([kind |-> "cycle"] \in Range(validation.errors))
              <=> (OmittedNodes(nodes, connections) # {})
        /\ validation.valid =>
              \A i \in DOMAIN nodes :
                  Cardinality(Positions_(getExecutionOrder(nodes, connections),
                                         nodes[i].id)) = 1

\* a validated graph whose first node is isolated and whose cycle lies elsewhere: a
\* cycle error is reported and the order leaves nodes out
C37_Witness ==
    /\ pc = "validated"
    /\ WellFormed(nodes, connections)
    /\ Len(nodes) >= 2
    /\ nodes[1].id \notin EndpointIds(connections)
    /\ ~validation.valid
    /\ OmittedNodes(nodes, connections) # {}
    /\ 1 \notin OmittedNodes(nodes, connections)

(***************************************************************************)
(* Claims about the results of runs in a workflow session, under           *)
(* SpecSession.                                                            *)
(***************************************************************************)
\* C39: run results never refer to nodes that are gone: after any sequence of runAll,
\* removeNode, clearWorkflow and loadWorkflow, every key of nodeOutputs and every
\* nodeId in executionStates is the id of a node currently in the graph, and
\* executionStates holds at most one entry per node id.
C39_ResultsNameNodesOfGraph ==
    /\ \A i \in DOMAIN storeOutputs : HasNode(nodes, storeOutputs[i][1])
    /\ \A i \in DOMAIN executionStates : HasNode(nodes, executionStates[i].nodeId)
    /\ \A i, j \in DOMAIN executionStates :
          (i # j) => executionStates[i].nodeId # executionStates[j].nodeId

(***************************************************************************)
(* Claims about the plugin registry, under SpecPlugins.                    *)
(***************************************************************************)
\* the node names the plugins of the model declare
DeclaredNames == {"LoraLoader", "tiler"}

\* some registered plugin with enabled = true declares a node of that name
DeclaredByEnabledPlugin(name) ==
    \E i \in DOMAIN plugins :
        /\ plugins[i][2].enabled
        /\ \E n \in DOMAIN plugins[i][2].nodes : plugins[i][2].nodes[n].name = name

\* C40: after any sequence of registerPlugin, togglePlugin and unregisterPlugin, the
\* plugin manager's custom node registry (and the definitions passed to
\* setCustomNodeDefinitions) contains a definition of kind comfy-<name> if and only if
\* some currently registered plugin with enabled = true declares a node with that
\* name, including when two plugins declare the same node name or a plugin id is
\* registered again.
C40_RegistryMatchesEnabledPlugins ==
    \A name \in DeclaredNames :
        /\ MapHas(customNodes, "comfy-" \o name) <=> DeclaredByEnabledPlugin(name)
        /\ (\E i \in DOMAIN registeredDefinitions :
               registeredDefinitions[i].type = "comfy-" \o name)
              <=> DeclaredByEnabledPlugin(name)

====
